---------------------------- MODULE Spec2Model ----------------------------
(***************************************************************************)
(* A model of the GeoSimulator simulation core:                            *)
(*   - the debris physics worker (src/src/scene/physics.worker.ts);        *)
(*   - the planar world generator and its height query                     *)
(*     (src/src/scene/GeoScene.tsx);                                       *)
(*   - the spherical height field, its radius query and the radial spring  *)
(*     of the player (src/unnamed/part_000).                               *)
(* Numbers with a fractional part are carried as integers in a stated      *)
(* unit.  Slots of the body pool are numbered 0..POOL_SIZE-1 as in the     *)
(* code; the TLA+ sequence that holds them is indexed from 1.              *)
(***************************************************************************)
EXTENDS Integers, Sequences, FiniteSets, TLC

(***************************************************************************)
(* Bounds of the exploration.                                              *)
(***************************************************************************)
\* init messages the host sends in one behaviour
MaxInits == 2
\* requested positions placed in one behaviour
MaxPlaced == 15
\* positions carried by one spawn message
MaxBatch == 13
\* timer ticks in one behaviour
MaxTicks == 3
\* calls of generatePlanet in one behaviour
MaxGenCalls == 5
\* hidden states of the ambient generator behind Math.random()
AmbientStates == 6
\* planar query positions run over -MaxCoord2 .. MaxCoord2 halves of a unit,
\* and the two positions FarCoord2 halves away from the origin
MaxCoord2 == 56
FarCoord2 == 2000000
\* angles of a normal are multiples of pi / AngleDen
AngleDen == 54
\* frame times are multiples of 1/60 s; the longest is MaxStepFrames / 60 s
MaxStepFrames == 18
\* frames of one behaviour of the spring
MaxFrames == 260
\* frames after which the spring has to have settled
SettleFrames == 240
\* the settling tolerance, 0.01, in units of 0.0001
Epsilon == 100

\* frames of the planar player in a run
MaxWalkTicks == 1

\* clicks on the terrain in a run
MaxEdits == 2

\* calls of loadWasm in a run
MaxCalls == 3
\* frames of one behaviour of the spherical player
MaxGlobeTicks == 1
\* pointer events, wheel events and mode switches of one behaviour of the camera
MaxCamEvents == 4

(***************************************************************************)
(* Program constants of the worker.                                        *)
(***************************************************************************)
POOL_SIZE == 12
\* y of a parked body (setTranslation(0, -1000, 0))
PARK_Y == -1000
\* deactivation threshold of the tick (t.y < -20)
FLOOR_Y == -20

\* Heights (y) a spawn request asks for: debris is spawned above the floor.
SpawnYs == {0}

VARIABLES
  world,          \* 0 for null, else the identity of the RAPIER world
  pool,           \* sequence of [body, active, y]; slot s is pool[s+1]
  poolNext,       \* round-robin cursor
  stepping,       \* the loop-started flag
  intervals,      \* number of setInterval timers running
  initsAwaiting,  \* init() calls suspended at `await RAPIER.init()`
  posted,         \* messages posted to the host by the latest handler
  \* history of the run, read only by the properties
  initsReceived,  \* init messages received
  worldsCreated,  \* worlds allocated so far (also the newest world's id)
  bodiesCreated,  \* rigid bodies allocated so far (also the newest body's id)
  placed,         \* requested positions placed so far
  lastSlots,      \* slots used by the latest spawn message that placed a
                  \* position, in request order
  preempted,      \* some spawn has recycled a slot that was active
  deactivated,    \* some tick has deactivated a body
  ticks,          \* timer ticks run
  ignored         \* the latest handler was a spawn that returned at line 46

VARIABLES
  seed,           \* the seed prop of the latest generatePlanet call (0: none yet)
  terrain,        \* TerrainData [positions, colors, heights] of the latest call
  ambient,        \* hidden state of Math.random()
  prevSeed,       \* seed of the call before the latest
  prevTerrain,    \* TerrainData returned by the call before the latest
  genCalls        \* calls of generatePlanet so far

workerVars == <<world, pool, poolNext, stepping, intervals, initsAwaiting, posted,
                initsReceived, worldsCreated, bodiesCreated, placed, lastSlots,
                preempted, deactivated, ticks, ignored>>

VARIABLES
  fieldMode,      \* "planar" (GeoScene.tsx) or "spherical" (part_000)
  fieldSeed,      \* the seed the mounted scene was generated from
  heights,        \* terrain.heights of the mounted scene, as Player receives it
  query           \* the latest height query: what it read and what it returned

VARIABLES
  targetSurface,  \* the surface radius under the player, in units of 0.0001
  radial,         \* radialRef.current, in units of 0.0001
  radialVelocity, \* radialVelocityRef.current, in units of 0.0001 per second
  delta,          \* the frame time, in sixtieths of a second
  startError,     \* |targetSurface - radial| when the first frame began
  crossed,        \* radial has been on both sides of targetSurface
  frames          \* frames run

sceneVars == <<seed, terrain, ambient, prevSeed, prevTerrain, genCalls>>

fieldVars == <<fieldMode, fieldSeed, heights, query>>

springVars == <<targetSurface, radial, radialVelocity, delta, startError, crossed, frames>>

VARIABLES
  ground,         \* terrain.heights, as Player receives it
  rockVoxels,     \* the rockVoxels prop of Player: a set of <<ix, iy, iz>>
  position,       \* positionRef.current, which is stateRef.current.position
  forward,        \* forwardRef.current, <<x, z>>
  yaw,            \* yawRef.current, in steps of 0.03 rad
  pitch,          \* pitchRef.current, in units of 0.0001 rad
  \* history of the latest frame, read only by the properties
  before,         \* position when the frame began
  entry,          \* [x, z, feet, head] when the resolution pass began
  hits,           \* the voxels that pushed, with their pushes, in loop order
  walkTicks       \* frames run

walkVars == <<ground, rockVoxels, position, forward, yaw, pitch, before, entry, hits,
              walkTicks>>

VARIABLES
  subVoxels,      \* the sub-voxel pieces, state of GeoScene
  \* history of the latest click, read only by the properties
  readerSaw,      \* the terrain a reader held when the click was handled
  readerHolds,    \* what the lists of that terrain hold now
  lastEdit,       \* [kind, index, voxel, fragments] of the click
  edits           \* clicks handled

editVars == <<subVoxels, readerSaw, readerHolds, lastEdit, edits>>

VARIABLES
  wasmInstance,   \* the cached exports object, 0 for null
  kinds,          \* kinds[id] is "wasm" or "fallback" for exports object id
  calls,          \* the calls of loadWasm, in the order they began
  loads,          \* instantiations of the module that succeeded
  streaming       \* 'instantiateStreaming' in WebAssembly

wasmVars == <<wasmInstance, kinds, calls, loads, streaming>>

VARIABLES
  globeSeed,      \* the seed prop of the spherical scene
  globeHeights,   \* terrain.heights of the spherical scene
  globePosition,  \* positionRef.current, which is stateRef.current.position:
                  \* [dir, len], a direction <<p, q>> and a length
  globeForward,   \* forwardRef.current, which is stateRef.current.forward:
                  \* [at, east, north], a tangent vector at direction at
  globeNormal,    \* stateRef.current.normal, a direction
  globeRadial,    \* radialRef.current
  globeVelocity,  \* radialVelocityRef.current
  \* history of the latest frame, read only by the properties
  globeLast,      \* what the frame sampled and decided
  globeTicks      \* frames run

globeVars == <<globeSeed, globeHeights, globePosition, globeForward, globeNormal,
               globeRadial, globeVelocity, globeLast, globeTicks>>

VARIABLES
  rig,            \* which CameraRig: "planar" (GeoScene.tsx) or "spherical" (part_000)
  camMode,        \* the mode prop: "iso" (the orbit camera) or "first"
  orbit,          \* orbitRef.current: [azimuth, polar, distance, dragging, lastX, lastY]
  \* history of the run, read only by the properties
  held,           \* a primary-button pointer-down has been received in orbit
                  \* mode, and no pointer-up has been received since
  awayInDrag,     \* the mode has left 'iso' since that pointer-down
  camEvents       \* events and mode switches so far

camVars == <<rig, camMode, orbit, held, awayInDrag, camEvents>>

\* the state of the subsystems that follow the spring
moreVars == <<walkVars, editVars, wasmVars, globeVars, camVars>>

vars == <<workerVars, sceneVars, fieldVars, springVars, moreVars>>

(***************************************************************************)
(* physics.worker.ts                                                       *)
(***************************************************************************)
Slots == 0 .. (POOL_SIZE - 1)

ActiveSlots(p) == {s \in 0 .. (Len(p) - 1) : p[s + 1].active}

BodyIds(p) == {p[i].body : i \in 1 .. Len(p)}

\* the import of line 1 always yields the module object
RAPIER == TRUE

\* init(), lines 15-20: pool = [] and POOL_SIZE bodies pushed, each parked
FreshPool(firstId) ==
  [i \in 1 .. POOL_SIZE |-> [body |-> firstId + i - 1, active |-> FALSE, y |-> PARK_Y]]

\* spawnPositions, line 49
SlotIndex(next, len) == next % len

\* Variants of the cursor step that a slip in line 50 would give: the cursor
\* left where it is, and the cursor advanced without the wrap.
AdvanceCursor_Stuck(next, len) == next

AdvanceCursor_NoWrap(next, len) == next + 1

\* spawnPositions, line 50
AdvanceCursor(next, len) == (next + 1) % len

\* spawnPositions, lines 51-56: the slot is taken whether or not it is active
Recycle(item, y) == [item EXCEPT !.active = TRUE, !.y = y]

\* spawnPositions, lines 47-60: one iteration per requested position.
\* st = [pool, poolNext, slots, hit]; slots and hit record the history.
RECURSIVE SpawnLoop(_, _, _)
SpawnLoop(st, positions, i) ==
  IF i > Len(positions) THEN st
  ELSE LET idx == SlotIndex(st.poolNext, Len(st.pool))
           item == st.pool[idx + 1]
       IN SpawnLoop([pool     |-> [st.pool EXCEPT ![idx + 1] = Recycle(item, positions[i])],
                     poolNext |-> AdvanceCursor(st.poolNext, Len(st.pool)),
                     slots    |-> Append(st.slots, idx),
                     hit      |-> st.hit \/ item.active],
                    positions, i + 1)

\* startLoop, lines 33-40: the positions of the bodies active at tick start
RECURSIVE TickOut(_, _)
TickOut(p, i) ==
  IF i > Len(p) THEN << >>
  ELSE IF p[i].active THEN <<p[i].y>> \o TickOut(p, i + 1)
  ELSE TickOut(p, i + 1)

\* line 39 with a test that no body meets
BelowFloor_Never(y) == FALSE

\* startLoop, line 39
BelowFloor(y) == y < FLOOR_Y

\* startLoop, lines 33-40: the pool after the loop's deactivations
TickPool(p) ==
  [i \in 1 .. Len(p) |-> IF p[i].active /\ BelowFloor(p[i].y)
                         THEN [p[i] EXCEPT !.active = FALSE] ELSE p[i]]

\* Variant of line 41 without the guard on out.length.
TickPosts_Always(out) == <<[type |-> "update", positions |-> out]>>

\* startLoop, line 41
TickPosts(out) ==
  IF Len(out) > 0 THEN <<[type |-> "update", positions |-> out]>> ELSE << >>

\* world.step(), line 31: the engine integrates the bodies under gravity.
\* Heights are kept at three levels (above the threshold, on it, below it);
\* one step lowers every body by `drop` levels, and whether a step crosses a
\* level is the engine's business, not this code's: drop is 0 or 1.
StepOutcomes == {0, 1}

Fall(y) == IF y > FLOOR_Y THEN FLOOR_Y ELSE IF y = FLOOR_Y THEN FLOOR_Y - 1 ELSE y

WorldStep(p, drop) ==
  [i \in 1 .. Len(p) |-> IF drop = 1 THEN [p[i] EXCEPT !.y = Fall(p[i].y)] ELSE p[i]]

WorkerInit ==
  /\ world = 0
  /\ pool = << >>
  /\ poolNext = 0
  /\ stepping = FALSE
  /\ intervals = 0
  /\ initsAwaiting = 0
  /\ posted = << >>
  /\ initsReceived = 0
  /\ worldsCreated = 0
  /\ bodiesCreated = 0
  /\ placed = 0
  /\ lastSlots = << >>
  /\ preempted = FALSE
  /\ deactivated = FALSE
  /\ ticks = 0
  /\ ignored = FALSE

\* a reply posted as soon as the init message is received
Reply_OnReceipt(returned) == <<[type |-> "inited"]>>

\* onmessage, lines 66-67: 'inited' is posted when init() has returned
Reply(returned) == IF returned THEN <<[type |-> "inited"]>> ELSE << >>

\* onmessage 'init' up to the await of init(), lines 63-66 and 9-13
RecvInit ==
  /\ initsReceived < MaxInits
  /\ initsReceived' = initsReceived + 1
  /\ initsAwaiting' = (IF RAPIER THEN initsAwaiting + 1 ELSE initsAwaiting)
  /\ posted' = Reply(~RAPIER)
  /\ ignored' = FALSE
  /\ UNCHANGED <<world, pool, poolNext, stepping, intervals, worldsCreated,
                 bodiesCreated, placed, lastSlots, preempted, deactivated, ticks>>

\* startLoop without the guard of line 25: every call sets a timer
Started_Unguarded(flag, timers) == timers + 1

\* startLoop, lines 25-28: the timers running after the call
Started(flag, timers) == IF flag THEN timers ELSE timers + 1

\* init() after the await, lines 14-21, startLoop's guard, lines 25-28, and the
\* reply of onmessage, line 67.  No other handler runs in between: the rest
\* of init() and the continuation of onmessage are microtasks.
InitResume ==
  /\ initsAwaiting > 0
  /\ initsAwaiting' = initsAwaiting - 1
  /\ worldsCreated' = worldsCreated + 1
  /\ world' = worldsCreated + 1
  /\ pool' = FreshPool(bodiesCreated + 1)
  /\ bodiesCreated' = bodiesCreated + POOL_SIZE
  /\ intervals' = Started(stepping, intervals)
  /\ stepping' = TRUE
  /\ posted' = Reply(TRUE)
  /\ ignored' = FALSE
  /\ UNCHANGED <<poolNext, initsReceived, placed, lastSlots, preempted, deactivated,
                 ticks>>

\* spawnPositions without line 46: with the pool still empty, line 50 has
\* left poolNext NaN (here -1) when line 52 throws on the missing item
Spawned_Unguarded(w, st, positions) ==
  IF Len(st.pool) = 0
  THEN (IF Len(positions) = 0 THEN st ELSE [st EXCEPT !.poolNext = -1])
  ELSE SpawnLoop(st, positions, 1)

\* spawnPositions, lines 45-61: a call without a world returns at once
Spawned(w, st, positions) == IF w = 0 THEN st ELSE SpawnLoop(st, positions, 1)

\* onmessage 'spawn', lines 68-69, and spawnPositions, lines 45-61
RecvSpawn ==
  \E n \in 0 .. MaxBatch, y \in SpawnYs :
    \E st \in {Spawned(world, [pool |-> pool, poolNext |-> poolNext,
                               slots |-> << >>, hit |-> FALSE],
                       [i \in 1 .. n |-> y])} :
      /\ world # 0 => placed + n <= MaxPlaced
      /\ pool' = st.pool
      /\ poolNext' = st.poolNext
      /\ lastSlots' = (IF st.slots = << >> THEN lastSlots ELSE st.slots)
      /\ placed' = placed + Len(st.slots)
      /\ preempted' = (preempted \/ st.hit)
      /\ posted' = << >>
      /\ ignored' = (world = 0)
      /\ UNCHANGED <<world, stepping, intervals, initsAwaiting, initsReceived,
                     worldsCreated, bodiesCreated, deactivated, ticks>>

\* the setInterval callback, lines 28-42
TimerTick ==
  /\ intervals > 0
  /\ ticks < MaxTicks
  /\ ticks' = ticks + 1
  /\ IF world = 0
     THEN /\ posted' = << >>
          /\ UNCHANGED <<pool, deactivated>>
     ELSE \E drop \in StepOutcomes :
            LET stepped == WorldStep(pool, drop)
            IN /\ pool' = TickPool(stepped)
               /\ posted' = TickPosts(TickOut(stepped, 1))
               /\ deactivated' = (deactivated \/ ActiveSlots(pool') # ActiveSlots(pool))
  /\ ignored' = FALSE
  /\ UNCHANGED <<world, poolNext, stepping, intervals, initsAwaiting, initsReceived,
                 worldsCreated, bodiesCreated, placed, lastSlots, preempted>>


(***************************************************************************)
(* 32-bit integer arithmetic of the noise functions.  A word is <<hi, lo>>, *)
(* two 16-bit halves, so that no intermediate value leaves 31 bits.        *)
(***************************************************************************)
Half == 2 ^ 16

W32(n) == <<(n \div Half) % Half, n % Half>>

RECURSIVE Xor16(_, _)
Xor16(a, b) ==
  IF a = 0 THEN b ELSE IF b = 0 THEN a
  ELSE ((a + b) % 2) + 2 * Xor16(a \div 2, b \div 2)

RECURSIVE Or16(_, _)
Or16(a, b) ==
  IF a = 0 THEN b ELSE IF b = 0 THEN a
  ELSE (IF a % 2 = 1 \/ b % 2 = 1 THEN 1 ELSE 0) + 2 * Or16(a \div 2, b \div 2)

Xor32(a, b) == <<Xor16(a[1], b[1]), Xor16(a[2], b[2])>>

Or32(a, b) == <<Or16(a[1], b[1]), Or16(a[2], b[2])>>

\* a >>> k for 0 < k < 16
Shr32(a, k) ==
  <<a[1] \div (2 ^ k), (a[2] \div (2 ^ k)) + (a[1] % (2 ^ k)) * (2 ^ (16 - k))>>

Add32(a, b) ==
  LET lo == a[2] + b[2] IN <<(a[1] + b[1] + (lo \div Half)) % Half, lo % Half>>

\* <<(p * q) div 2^16, (p * q) mod 2^16>> for p, q below 2^16
MulParts(p, q) ==
  LET lowByte == p * (q % 256)
      highByte == p * (q \div 256)
      sum == lowByte + 256 * (highByte % 256)
  IN <<(sum \div Half) + (highByte \div 256), sum % Half>>

\* Math.imul
Mul32(a, b) ==
  LET ll == MulParts(a[2], b[2])
      hl == MulParts(a[1], b[2])
      lh == MulParts(a[2], b[1])
  IN <<(ll[1] + hl[2] + lh[2]) % Half, ll[2]>>

Neg32(a) ==
  IF a = <<0, 0>> THEN a ELSE Add32(<<Half - 1 - a[1], Half - 1 - a[2]>>, <<0, 1>>)

\* ToInt32 of k * i for a word k and a small integer i of either sign
MulInt(k, i) == IF i >= 0 THEN Mul32(k, W32(i)) ELSE Neg32(Mul32(k, W32(-i)))

\* 0x6d2b79f5, the increment of mulberry32
GOLD == <<27947, 31221>>

\* 374761393 and 668265263, the multipliers of seededNoise
NOISE_I == <<5718, 26545>>

NOISE_J == <<10196, 60207>>

\* line 47: r = Math.imul(t ^ (t >>> 15), 1 | t)
Scramble(t) == Mul32(Xor32(t, Shr32(t, 15)), Or32(<<0, 1>>, t))

\* line 48: r ^= r + Math.imul(r ^ (r >>> 7), 61 | r)
Stir(r) == Xor32(r, Add32(r, Mul32(Xor32(r, Shr32(r, 7)), Or32(<<0, 61>>, r))))

\* line 49: (r ^ (r >>> 14)) >>> 0
Finish(r) == Xor32(r, Shr32(r, 14))

\* mulberry32, lines 46-49: the word r ^ (r >>> 14) for generator state t (t
\* after the increment of line 46); the value returned is that word / 2^32.
mulberry32(t) == Finish(Stir(Scramble(t)))

\* the n-th value (n from 1) of the generator returned by mulberry32(seedWord)
Draw(seedWord, n) == mulberry32(Add32(seedWord, Mul32(GOLD, W32(n))))

\* seededNoise, lines 53-57
seededNoise(sd, i, j) ==
  Draw(Xor32(Xor32(W32(sd), MulInt(NOISE_I, i)), MulInt(NOISE_J, j)), 1)

\* Math.floor(r * k) for r = word / 2^32 and an integer k of 0..32767
FloorMul(word, k) == (word[1] * k + ((word[2] * k) \div Half)) \div Half

Max(a, b) == IF a >= b THEN a ELSE b

Min(a, b) == IF a <= b THEN a ELSE b

(***************************************************************************)
(* GeoScene.tsx: the planar world generator.  VOXEL_SIZE is 1.0, so grid   *)
(* coordinates and world coordinates of a voxel coincide; a position is    *)
(* <<x, y, z>>.  heights is a function on 0 .. WORLD_SIZE^2 - 1, indexed   *)
(* as the array of the code.                                               *)
(***************************************************************************)
WORLD_SIZE == 50

HalfWorld == WORLD_SIZE \div 2

\* seeds the scene is generated from
Seeds == {3, 42}

\* seeds GeoScene is mounted with: those, one whose world has 4 quarries and
\* one whose world has 5
MountSeeds == Seeds \cup {21, 23}

NoTerrain == [positions |-> << >>, colors |-> << >>, heights |-> << >>]

\* lines 68, 97, 109, 124
CellIndex(x, z) == (x + HalfWorld) * WORLD_SIZE + (z + HalfWorld)

\* lines 66-67: Math.max(1, Math.floor(1 + noise * 2.5))
BaseHeight(sd, x, z) == Max(1, 1 + (FloorMul(seededNoise(sd, x, z), 5) \div 2))

\* lines 71-75: the dirt column of one cell
Column(x, z, base, h) == [k \in 1 .. h |-> <<x, base + k - 1, z>>]

\* lines 64-77, one row x of the base pass: the dirt voxels of its cells
RECURSIVE BaseRow(_, _, _)
BaseRow(hs, x, z) ==
  IF z >= HalfWorld THEN << >>
  ELSE Column(x, z, 0, hs[CellIndex(x, z)]) \o BaseRow(hs, x, z + 1)

RECURSIVE BaseRows(_, _)
BaseRows(hs, x) ==
  IF x >= HalfWorld THEN << >> ELSE BaseRow(hs, x, -HalfWorld) \o BaseRows(hs, x + 1)

Fill(n, c) == [k \in 1 .. n |-> c]

\* lines 62-69: the heights the base pass stores
BaseHeights(sd) ==
  [idx \in 0 .. (WORLD_SIZE * WORLD_SIZE - 1) |->
     BaseHeight(sd, (idx \div WORLD_SIZE) - HalfWorld, (idx % WORLD_SIZE) - HalfWorld)]

\* the lists and the array after the base pass has pushed voxels ps for heights hs
BaseLists(ps, hs) == [positions |-> ps, colors |-> Fill(Len(ps), "dirt"), heights |-> hs]

BaseVoxels(hs) == BaseLists(BaseRows(hs, -HalfWorld), hs)

\* lines 60-77: the base pass
BasePass(sd) == BaseVoxels(BaseHeights(sd))

BaseTable == [sd \in MountSeeds |-> BasePass(sd)]

\* A seed for the quarry generator taken from Math.random(): what line 80
\* would be without the seed.
QuarrySeed_Ambient(sd) == W32(ambient)

\* line 80: the generator of the quarries is mulberry32(seed + 12345)
QuarrySeed(sd) == W32(sd + 12345)

\* lines 96, 108
InWorld(gx, gz) ==
  ~(gx < -HalfWorld \/ gx >= HalfWorld \/ gz < -HalfWorld \/ gz >= HalfWorld)

\* line 99, with step = Math.floor(rng() * 2)
Lowered_Unclamped(stored, h, step) ==
  (IF stored = 0 THEN 1 ELSE stored) - ((h \div 2) + step)

Lowered(stored, h, step) ==
  Max(0, (IF stored = 0 THEN 1 ELSE stored) - ((h \div 2) + step))

\* The loops of lines 92-93 and 104-105 visit the cells of the footprint with
\* dx outermost; line 96 (108) skips the cells outside the world.  The cells
\* visited and not skipped are the offsets DxLo..DxHi by DzLo..DzHi.
DxLo(qu) == Max(0, -HalfWorld - qu.cx)

DxHi(qu) == Min(qu.w - 1, HalfWorld - 1 - qu.cx)

DzLo(qu) == Max(0, -HalfWorld - qu.cz)

DzHi(qu) == Min(qu.l - 1, HalfWorld - 1 - qu.cz)

RowLen(qu) == Max(0, DzHi(qu) - DzLo(qu) + 1)

CellCount(qu) == Max(0, DxHi(qu) - DxLo(qu) + 1) * RowLen(qu)

\* cell (gx, gz) is one the loops visit and do not skip
InFootprint(qu, gx, gz) ==
  /\ gx - qu.cx \in 0 .. (qu.w - 1)
  /\ gz - qu.cz \in 0 .. (qu.l - 1)
  /\ InWorld(gx, gz)

\* how many cells the loops have carved before they reach cell (gx, gz)
CellRank(qu, gx, gz) ==
  (gx - qu.cx - DxLo(qu)) * RowLen(qu) + (gz - qu.cz - DzLo(qu))

\* lines 92-101, the pit carve of quarry qu = [w, l, h, cx, cz] on heights hs,
\* n values having been drawn from the quarry generator before it: every
\* cell of the footprint is lowered once, the k-th of them with draw n + k.
CarveCells(hs, sw, qu, n) ==
  [idx \in DOMAIN hs |->
     LET gx == (idx \div WORLD_SIZE) - HalfWorld
         gz == (idx % WORLD_SIZE) - HalfWorld
     IN IF InFootprint(qu, gx, gz)
        THEN Lowered(hs[idx], qu.h, FloorMul(Draw(sw, n + CellRank(qu, gx, gz) + 1), 2))
        ELSE hs[idx]]

\* line 110
ColumnBase(hs, idx) == Max(0, hs[idx])

\* lines 104-117, the rock columns of quarry qu on the carved heights hs: h
\* voxels per cell, cell after cell in the order of the loops
StackCells(hs, qu) ==
  [k \in 1 .. (CellCount(qu) * qu.h) |->
     LET cell == (k - 1) \div qu.h
         gx == qu.cx + DxLo(qu) + (cell \div RowLen(qu))
         gz == qu.cz + DzLo(qu) + (cell % RowLen(qu))
     IN <<gx, ColumnBase(hs, CellIndex(gx, gz)) + ((k - 1) % qu.h), gz>>]

\* lines 88-89: the corner of a quarry of width w and length l
QuarryAt(sw, n, w, l, h) ==
  [w |-> w, l |-> l, h |-> h,
   cx |-> FloorMul(Draw(sw, n + 4), WORLD_SIZE - w) - HalfWorld,
   cz |-> FloorMul(Draw(sw, n + 5), WORLD_SIZE - l) - HalfWorld]

\* lines 84-89: the footprint of the quarry whose first draw is number n + 1
QuarryDims(sw, n) ==
  QuarryAt(sw, n, 6 + FloorMul(Draw(sw, n + 1), 10), 6 + FloorMul(Draw(sw, n + 2), 10),
           3 + FloorMul(Draw(sw, n + 3), 6))

\* The state of the quarry loop is st = [positions, colors, heights, n,
\* quarries]: n counts the values drawn from the quarry generator, quarries
\* lists the footprints for the properties and is no part of TerrainData.
\* lines 112-115: the rock voxels of a quarry are pushed
Pushed(st, qu, carved, rocks) ==
  [positions |-> st.positions \o rocks,
   colors |-> st.colors \o Fill(Len(rocks), "rock"),
   heights |-> carved,
   n |-> st.n + 5 + CellCount(qu),
   quarries |-> Append(st.quarries, qu)]

\* lines 103-117, on the heights the carve of this quarry has left
Stacked(st, qu, carved) == Pushed(st, qu, carved, StackCells(carved, qu))

\* lines 91-117 with the two loops in the other order: the columns are stacked
\* on the heights as they were, then the pit is carved
Quarried_StackFirst(st, sw, qu) ==
  Pushed(st, qu, CarveCells(st.heights, sw, qu, st.n + 5), StackCells(st.heights, qu))

\* lines 91-117: the pit of quarry qu is carved, then its columns are stacked
Quarried(st, sw, qu) == Stacked(st, qu, CarveCells(st.heights, sw, qu, st.n + 5))

\* lines 83-118
RECURSIVE QuarryLoop(_, _, _, _)
QuarryLoop(st, sw, q, numQuarries) ==
  IF q >= numQuarries THEN st
  ELSE QuarryLoop(Quarried(st, sw, QuarryDims(sw, st.n)), sw, q + 1, numQuarries)

\* lines 80-81: the state before the first quarry, one value drawn
QuarryStart(base) ==
  [positions |-> base.positions, colors |-> base.colors, heights |-> base.heights,
   n |-> 1, quarries |-> << >>]

\* line 81: 3 + Math.floor(rng() * 3)
NumQuarries(sw) == 3 + FloorMul(Draw(sw, 1), 3)

QuarriesFrom(base, sw) == QuarryLoop(QuarryStart(base), sw, 0, NumQuarries(sw))

\* lines 80-118: the quarry pass on the result of the base pass
QuarryPass(sd) == QuarriesFrom(BaseTable[sd], QuarrySeed(sd))

QuarryTable == [sd \in MountSeeds |-> QuarryPass(sd)]

\* Math.random(): the value a / AmbientStates of hidden state a, and the state
\* after the draw.  The hidden state is not set by the seed.
NextAmbient(a) == (a + 1) % AmbientStates

\* Math.floor(Math.random() * k) in hidden state a
FloorRandom(a, k) == (a * k) \div AmbientStates

\* lines 129-136: the voxels of one isolated block, dx outermost, dy innermost
BlockVoxels(x, z, baseH) ==
  [k \in 1 .. 27 |-> <<x + ((k - 1) \div 9), baseH + ((k - 1) % 3), z + (((k - 1) \div 3) % 3)>>]

\* lines 129-136: the voxels of a block are pushed; two values were drawn
BlockPushed(st, rocks) ==
  [positions |-> st.positions \o rocks,
   colors |-> st.colors \o Fill(Len(rocks), "rock"),
   amb |-> NextAmbient(NextAmbient(st.amb))]

\* lines 122-136: one isolated block; x is drawn, then z
Block(st, hs) ==
  LET x == FloorRandom(st.amb, WORLD_SIZE - 4) - HalfWorld
      z == FloorRandom(NextAmbient(st.amb), WORLD_SIZE - 4) - HalfWorld
  IN BlockPushed(st, BlockVoxels(x, z, Max(0, hs[CellIndex(x, z)])))

\* lines 121-137.  st = [positions, colors, amb]
RECURSIVE BlockLoop(_, _, _)
BlockLoop(st, hs, i) ==
  IF i >= 8 THEN st ELSE BlockLoop(Block(st, hs), hs, i + 1)

\* lines 120-139: the isolated blocks on the result qp of the quarry pass, and
\* the value returned
Returned(bl, hs) ==
  [positions |-> bl.positions, colors |-> bl.colors, heights |-> hs, amb |-> bl.amb]

WithBlocks(qp, amb) ==
  Returned(BlockLoop([positions |-> qp.positions, colors |-> qp.colors, amb |-> amb],
                     qp.heights, 0),
           qp.heights)

\* generatePlanet, lines 59-140, called with Math.random() in hidden state amb:
\* the TerrainData returned and, in amb, the hidden state it leaves.
generatePlanet(sd, amb) == WithBlocks(QuarryTable[sd], amb)

SceneInit ==
  /\ seed = 0
  /\ terrain = NoTerrain
  /\ ambient \in 0 .. (AmbientStates - 1)
  /\ prevSeed = 0
  /\ prevTerrain = NoTerrain
  /\ genCalls = 0

\* GeoScene mounts with prop seed = sd: useState(() => generatePlanet(seed)),
\* line 656
Mount ==
  \E sd \in MountSeeds :
    /\ genCalls < MaxGenCalls
    /\ \E g \in {generatePlanet(sd, ambient)} :
         /\ terrain' = [positions |-> g.positions, colors |-> g.colors,
                        heights |-> g.heights]
         /\ ambient' = g.amb
    /\ seed' = sd
    /\ prevSeed' = seed
    /\ prevTerrain' = terrain
    /\ genCalls' = genCalls + 1

\* the scene is not mounted
SceneIdle ==
  /\ seed = 0
  /\ terrain = NoTerrain
  /\ ambient = 0
  /\ prevSeed = 0
  /\ prevTerrain = NoTerrain
  /\ genCalls = 0

\* the worker is not started
WorkerIdle ==
  /\ world = 0
  /\ pool = << >>
  /\ poolNext = 0
  /\ stepping = FALSE
  /\ intervals = 0
  /\ initsAwaiting = 0
  /\ posted = << >>
  /\ initsReceived = 0
  /\ worldsCreated = 0
  /\ bodiesCreated = 0
  /\ placed = 0
  /\ lastSlots = << >>
  /\ preempted = FALSE
  /\ deactivated = FALSE
  /\ ticks = 0
  /\ ignored = FALSE

(***************************************************************************)
(* The height queries.  Lengths are integers in units of 0.0001.  The      *)
(* planar query is sampleSurfaceHeight of GeoScene.tsx; the spherical field*)
(* and sampleSurfaceRadius are those of part_000.  A query is recorded as  *)
(*   [mode, input, cells, nan, value, den, weights]:                       *)
(* cells are the array indices it read, in the order of the code; nan says *)
(* that the result is NaN; the result is value / den; weights are the      *)
(* numerators of the interpolation weights t (over AngleDen) and u (over   *)
(* 2 * AngleDen).                                                          *)
(***************************************************************************)
\* GeoScene.tsx: VOXEL_SIZE = 1.0
VOXEL_SIZE == 10000

\* part_000: PLANET_RADIUS = 4.8, VOXEL_SIZE = 0.45
PLANET_RADIUS == 48000

VOXEL_SIZE_SPHERE == 4500

LAT_STEPS == 28

LON_STEPS == 52

NoQuery == [mode |-> "none", input |-> <<0, 0>>, cells |-> << >>, nan |-> FALSE,
            value |-> 0, den |-> 1, weights |-> <<0, 0>>]

\* Math.round of the coordinate x2 / 2: the nearest integer, a tie going up
Round(x2) == (x2 + 1) \div 2

\* Math.max(-WORLD_SIZE / 2, Math.min(WORLD_SIZE / 2 - 1, v)), lines 264-265
ClampCell(v) == Max(-HalfWorld, Min(HalfWorld - 1, v))

\* hs[idx] is an element of the array, not undefined
InArray(hs, idx) == idx \in DOMAIN hs

\* sampleSurfaceHeight, lines 261-268, at position (x2 / 2, z2 / 2).  An index
\* outside the array reads undefined, and undefined * VOXEL_SIZE is NaN.
sampleSurfaceHeight(x2, z2, hs) ==
  LET x == Round(x2)
      z == Round(z2)
      clampedX == ClampCell(x)
      clampedZ == ClampCell(z)
      index == CellIndex(clampedX, clampedZ)
  IN [mode |-> "planar", input |-> <<x2, z2>>, cells |-> <<index>>,
      nan |-> ~InArray(hs, index),
      value |-> IF InArray(hs, index) THEN hs[index] * VOXEL_SIZE ELSE 0,
      den |-> 1, weights |-> <<0, 0>>]

\* part_000 line 108: noise < 0.3
IsOcean(word) == FloorMul(word, 10) < 3

\* part_000 lines 104-110: the height of cell (lat, lon)
SphereHeight(sd, lat, lon) ==
  LET noise == seededNoise(sd, lat, lon)
  IN IF IsOcean(noise) THEN 1 ELSE 1 + FloorMul(noise, 3)

\* part_000 lines 94-110: the heights array of the spherical generatePlanet
SphereHeights(sd) ==
  [idx \in 0 .. (LAT_STEPS * LON_STEPS - 1) |->
     SphereHeight(sd, idx \div LON_STEPS, idx % LON_STEPS)]

SphereTable == [sd \in Seeds |-> SphereHeights(sd)]

\* part_000 line 229: phi = acos(min(max(normal.y, -1), 1)), as a multiple of
\* pi / AngleDen.  a < 0 and a > AngleDen stand for normal.y > 1 and < -1.
PolarAngle(a) == Max(0, Min(AngleDen, a))

\* part_000 lines 232-233: latF * AngleDen and lonF * 2 * AngleDen, for
\* phi = a * pi / AngleDen and theta = b * pi / AngleDen
LatNum(a) == a * (LAT_STEPS - 1)

LonNum(b) == ((b + 2 * AngleDen) % (2 * AngleDen)) * LON_STEPS

\* part_000 lines 235-238
Lat0(a) == LatNum(a) \div AngleDen

Lon0(b) == (LonNum(b) \div (2 * AngleDen)) % LON_STEPS

Lat1_NoClamp(lat0) == lat0 + 1

Lat1(lat0) == Min(lat0 + 1, LAT_STEPS - 1)

Lon1(lon0) == (lon0 + 1) % LON_STEPS

\* heights[idx] ?? 1, lines 243-246
ReadOr1(hs, idx) == IF InArray(hs, idx) THEN hs[idx] ELSE 1

\* a * (1 - w) + b * w for the weight w / den, times den; lines 248-250
Lerp_Swapped(x, y, w, den) == x * w + y * (den - w)

Lerp(x, y, w, den) == x * (den - w) + y * w

\* sampleSurfaceRadius, part_000 lines 228-253, for the normal of polar angle
\* a * pi / AngleDen and azimuth b * pi / AngleDen (atan2 returns -pi .. pi)
sampleSurfaceRadius(a, b, hs) ==
  LET phi == PolarAngle(a)
      lat0 == Lat0(phi)
      lon0 == Lon0(b)
      lat1 == Lat1(lat0)
      lon1 == Lon1(lon0)
      t == LatNum(phi) - lat0 * AngleDen
      u == LonNum(b) - lon0 * 2 * AngleDen
      i00 == lat0 * LON_STEPS + lon0
      i10 == lat1 * LON_STEPS + lon0
      i01 == lat0 * LON_STEPS + lon1
      i11 == lat1 * LON_STEPS + lon1
      h0 == Lerp(ReadOr1(hs, i00), ReadOr1(hs, i10), t, AngleDen)
      h1 == Lerp(ReadOr1(hs, i01), ReadOr1(hs, i11), t, AngleDen)
      height == Lerp(h0, h1, u, 2 * AngleDen)
      den == AngleDen * 2 * AngleDen
  IN [mode |-> "spherical", input |-> <<a, b>>, cells |-> <<i00, i10, i01, i11>>,
      nan |-> FALSE,
      value |-> PLANET_RADIUS * den + height * VOXEL_SIZE_SPHERE,
      den |-> den, weights |-> <<t, u>>]

\* positions of a planar query, in halves of a unit
Coords2 == (-MaxCoord2 .. MaxCoord2) \cup {-FarCoord2, FarCoord2}

\* a scene is mounted on the world of some seed: GeoScene.tsx line 656 and
\* lines 675-686, part_000 GeoScene
FieldInit ==
  /\ fieldSeed \in Seeds
  /\ fieldMode \in {"planar", "spherical"}
  /\ heights = IF fieldMode = "planar" THEN QuarryTable[fieldSeed].heights
               ELSE SphereTable[fieldSeed]
  /\ query = NoQuery

\* the planar player samples the surface under position (x2 / 2, z2 / 2)
QueryPlanar ==
  /\ fieldMode = "planar"
  /\ query.mode = "none"
  /\ \E x2 \in Coords2, z2 \in Coords2 :
       query' = sampleSurfaceHeight(x2, z2, heights)
  /\ UNCHANGED <<fieldMode, fieldSeed, heights>>

\* the spherical player samples the surface radius along a normal
QuerySpherical ==
  /\ fieldMode = "spherical"
  /\ query.mode = "none"
  /\ \E a \in -1 .. (AngleDen + 1), b \in -AngleDen .. AngleDen :
       query' = sampleSurfaceRadius(a, b, heights)
  /\ UNCHANGED <<fieldMode, fieldSeed, heights>>

\* no scene is queried
FieldIdle ==
  /\ fieldMode = "none"
  /\ fieldSeed = 0
  /\ heights = << >>
  /\ query = NoQuery

(***************************************************************************)
(* The vertical settle of the spherical player, part_000 lines 372-382.    *)
(* Lengths are in units of 0.0001, times in sixtieths of a second; a       *)
(* quotient is rounded to the nearest unit.                                *)
(***************************************************************************)
GRAVITY_SPRING == 10

\* GRAVITY_DAMP = 4.5, in tenths
GRAVITY_DAMP == 45

\* a / b rounded to the nearest integer, b > 0
RoundDiv(a, b) == (2 * a + b) \div (2 * b)

Abs(a) == IF a < 0 THEN -a ELSE a

\* line 376, times 10
Accel_Undamped(target, r, v) == (target - r) * GRAVITY_SPRING * 10

Accel(target, r, v) == (target - r) * GRAVITY_SPRING * 10 - v * GRAVITY_DAMP

\* line 377, for delta = n / 60
NextVelocity(target, r, v, n) == v + RoundDiv(Accel(target, r, v) * n, 600)

\* line 378
NextRadial(target, r, v, n) == r + RoundDiv(NextVelocity(target, r, v, n) * n, 60)

\* the surface radii of a field whose heights are 1, 2 or 3
Targets == {PLANET_RADIUS + h * VOXEL_SIZE_SPHERE : h \in 1 .. 3}

\* the player at rest at the centre, or on the base sphere, of a planet whose
\* surface under it stays at one radius; every frame lasts delta / 60 s
SpringInit ==
  /\ targetSurface \in Targets
  /\ radial \in {0, PLANET_RADIUS}
  /\ radialVelocity = 0
  /\ delta \in 1 .. MaxStepFrames
  /\ startError = targetSurface - radial
  /\ crossed = FALSE
  /\ frames = 0

\* useFrame, lines 372-380, without a movement intent
Frame ==
  /\ delta > 0
  /\ frames < MaxFrames
  /\ radial' = NextRadial(targetSurface, radial, radialVelocity, delta)
  /\ radialVelocity' = NextVelocity(targetSurface, radial, radialVelocity, delta)
  /\ crossed' = (crossed \/ radial' > targetSurface)
  /\ frames' = frames + 1
  /\ UNCHANGED <<targetSurface, delta, startError>>

\* no player is settling
SpringIdle ==
  /\ targetSurface = 0
  /\ radial = 0
  /\ radialVelocity = 0
  /\ delta = 0
  /\ startError = 0
  /\ crossed = FALSE
  /\ frames = 0

(***************************************************************************)
(* GeoScene.tsx: the planar player.  Lengths are integers in units of      *)
(* 0.0001, a frame time is a number n of sixtieths of a second, yaw is     *)
(* counted in steps of 0.03 rad (rotSpeed for one sixtieth), pitch in      *)
(* units of 0.0001 rad.  A quotient and a square root are rounded to the   *)
(* nearest unit.  A horizontal vector is <<x, z>>.                         *)
(***************************************************************************)
PLAYER_RADIUS == 3000

PLAYER_HEIGHT == 17000

\* frame times of the render loop: 1/60 s, 0.1 s and 0.3 s
DeltaFrames == {1, 6, 18}

\* <<sin, cos>> of 0, 0.03, 0.06, ... rad, times 10000
TrigRows ==
  <<<<0, 10000>>, <<300, 9996>>, <<600, 9982>>, <<899, 9960>>,
    <<1197, 9928>>, <<1494, 9888>>, <<1790, 9838>>, <<2085, 9780>>,
    <<2377, 9713>>, <<2667, 9638>>, <<2955, 9553>>, <<3240, 9460>>,
    <<3523, 9359>>, <<3802, 9249>>, <<4078, 9131>>, <<4350, 9004>>,
    <<4618, 8870>>, <<4882, 8727>>, <<5141, 8577>>, <<5396, 8419>>,
    <<5646, 8253>>, <<5891, 8080>>, <<6131, 7900>>, <<6365, 7712>>,
    <<6594, 7518>>, <<6816, 7317>>, <<7033, 7109>>, <<7243, 6895>>,
    <<7446, 6675>>, <<7643, 6448>>, <<7833, 6216>>, <<8016, 5978>>,
    <<8192, 5735>>, <<8360, 5487>>, <<8521, 5234>>, <<8674, 4976>>,
    <<8820, 4713>>, <<8957, 4447>>, <<9086, 4176>>, <<9208, 3902>>,
    <<9320, 3624>>, <<9425, 3342>>, <<9521, 3058>>, <<9608, 2771>>,
    <<9687, 2482>>, <<9757, 2190>>, <<9819, 1896>>, <<9871, 1601>>,
    <<9915, 1304>>, <<9949, 1006>>, <<9975, 707>>, <<9992, 408>>,
    <<9999, 108>>, <<9998, -192>>, <<9988, -492>>>>

Sin(k) == IF k >= 0 THEN TrigRows[k + 1][1] ELSE -TrigRows[1 - k][1]

Cos(k) == TrigRows[Abs(k) + 1][2]

\* Math.ceil(a / b), b > 0
CeilDiv(a, b) == -((-a) \div b)

\* the largest r of lo .. hi with r * r <= m
RECURSIVE SqrtFloor(_, _, _)
SqrtFloor(m, lo, hi) ==
  IF lo >= hi THEN lo
  ELSE IF ((lo + hi + 1) \div 2) * ((lo + hi + 1) \div 2) <= m
       THEN SqrtFloor(m, (lo + hi + 1) \div 2, hi)
       ELSE SqrtFloor(m, lo, ((lo + hi + 1) \div 2) - 1)

\* Math.sqrt(m), to the nearest unit, for m below (4 * VOXEL_SIZE)^2
Nearest(m, r) == IF m - r * r > r THEN r + 1 ELSE r

Sqrt(m) == Nearest(m, SqrtFloor(m, 0, 4 * VOXEL_SIZE))

\* Vector3.length() and .normalize() of a horizontal vector; the zero vector
\* stays zero
Length(v) == Sqrt(v[1] * v[1] + v[2] * v[2])

Scaled(v, num, den) == <<RoundDiv(v[1] * num, den), RoundDiv(v[2] * num, den)>>

Normalized(v) == IF Length(v) = 0 THEN v ELSE Scaled(v, VOXEL_SIZE, Length(v))

\* the keys held during a frame, lines 174-257
NoKeys ==
  [forward |-> FALSE, back |-> FALSE, left |-> FALSE, right |-> FALSE,
   rotateLeft |-> FALSE, rotateRight |-> FALSE, rotateUp |-> FALSE, rotateDown |-> FALSE]

Intents ==
  {NoKeys,
   [NoKeys EXCEPT !.forward = TRUE],
   [NoKeys EXCEPT !.back = TRUE],
   [NoKeys EXCEPT !.left = TRUE],
   [NoKeys EXCEPT !.right = TRUE],
   [NoKeys EXCEPT !.forward = TRUE, !.left = TRUE],
   [NoKeys EXCEPT !.forward = TRUE, !.rotateLeft = TRUE],
   [NoKeys EXCEPT !.rotateRight = TRUE],
   [NoKeys EXCEPT !.rotateUp = TRUE],
   [NoKeys EXCEPT !.rotateDown = TRUE],
   [NoKeys EXCEPT !.rotateUp = TRUE, !.rotateDown = TRUE]}

\* rotSpeed * delta, line 301, in yaw steps and in pitch units
YawTurn(n) == n

PitchTurn(n) == 300 * n

\* lines 302-303
Yawed(yw, keys, n) ==
  (IF keys.rotateLeft THEN yw - YawTurn(n) ELSE yw)
    + (IF keys.rotateRight THEN YawTurn(n) ELSE 0)

\* line 304 without Math.min
PitchedUp_Unclamped(p, keys, n) == IF keys.rotateUp THEN p + PitchTurn(n) ELSE p

\* line 304
PitchedUp(p, keys, n) == IF keys.rotateUp THEN Min(8000, p + PitchTurn(n)) ELSE p

\* line 305
PitchedDown(p, keys, n) == IF keys.rotateDown THEN Max(-4000, p - PitchTurn(n)) ELSE p

\* lines 304-305
Pitched(p, keys, n) == PitchedDown(PitchedUp(p, keys, n), keys, n)

\* line 308
ForwardOf(yw) == Normalized(<<Sin(yw), -Cos(yw)>>)

\* line 314: (-forward.z, 0, forward.x).normalize()
RightOf(fwd) == Normalized(<<-fwd[2], fwd[1]>>)

Plus(u, v) == <<u[1] + v[1], u[2] + v[2]>>

Times(on, v) == IF on THEN v ELSE <<0, 0>>

Negated(v) == <<-v[1], -v[2]>>

\* lines 311-316: the sum of the directions of the movement keys
MoveSum(fwd, rgt, keys) ==
  Plus(Plus(Times(keys.forward, fwd), Times(keys.back, Negated(fwd))),
       Plus(Times(keys.left, Negated(rgt)), Times(keys.right, rgt)))

\* delta * 5, line 319
StepLength(n) == RoundDiv(5 * VOXEL_SIZE * n, 60)

\* lines 318-321: the displacement of the frame
MoveOf(mv, n) == IF Length(mv) > 0 THEN Scaled(mv, StepLength(n), Length(mv)) ELSE <<0, 0>>

\* Math.round(p / VOXEL_SIZE), lines 262-263, 332-333, 339
RoundCell(p) == (2 * p + VOXEL_SIZE) \div (2 * VOXEL_SIZE)

\* sampleSurfaceHeight(position, heights), lines 261-268, as line 324 calls it
SurfaceUnder(x, z, hs) ==
  hs[CellIndex(ClampCell(RoundCell(x)), ClampCell(RoundCell(z)))] * VOXEL_SIZE

\* line 328
HalfVoxel == VOXEL_SIZE \div 2

\* line 358
MinDist == PLAYER_RADIUS + HalfVoxel

\* line 334
SearchCells == CeilDiv(PLAYER_RADIUS + HalfVoxel, VOXEL_SIZE) + 1

\* lines 335-337: the numbers of values of dx (and dz) and of dy
Span == 2 * SearchCells + 1

LevelCount == CeilDiv(PLAYER_HEIGHT, VOXEL_SIZE) + 3

\* lines 335-337: <<dx, dz, dy>> of iteration k = 1, 2, ... of the loops
Probe(k) ==
  <<((k - 1) \div (Span * LevelCount)) - SearchCells,
    (((k - 1) \div LevelCount) % Span) - SearchCells,
    ((k - 1) % LevelCount) - 1>>

\* lines 338-340: the grid coordinate <<ix, iy, iz>> iteration k looks up, for
\* the player whose resolution pass starts at at = [x, z, feet, head]
ProbedCell(at, k) ==
  <<RoundCell(at.x) + Probe(k)[1], RoundCell(at.feet) + Probe(k)[3],
    RoundCell(at.z) + Probe(k)[2]>>

\* line 352: the voxel is skipped
Apart(at, v) ==
  at.head < v[2] * VOXEL_SIZE - HalfVoxel
    \/ at.feet > v[2] * VOXEL_SIZE + HalfVoxel + PLAYER_HEIGHT

\* lines 362-366: the push away from the voxel centre, d = <<dxh, dzh>>
PushAlong(d, dist) == Scaled(d, MinDist - dist, dist)

\* lines 355-366: the displacement voxel v adds; 0.001 is 10 units
PushFrom(d) ==
  IF d[1] * d[1] + d[2] * d[2] < 10 * 10 THEN <<MinDist, 0>>
  ELSE IF d[1] * d[1] + d[2] * d[2] < MinDist * MinDist THEN PushAlong(d, Length(d))
  ELSE <<0, 0>>

\* lines 342-366 for a voxel of the set
Push(at, v) ==
  IF Apart(at, v) THEN <<0, 0>>
  ELSE PushFrom(<<at.x - v[1] * VOXEL_SIZE, at.z - v[3] * VOXEL_SIZE>>)

\* lines 338-366: what iteration k adds to positionRef and the voxel it is
\* pushed by, if any
Counted(v, p) ==
  IF p = <<0, 0>> THEN [sum |-> <<0, 0>>, hits |-> << >>]
  ELSE [sum |-> p, hits |-> <<[voxel |-> v, push |-> p]>>]

Probed(at, rocks, k) ==
  IF ProbedCell(at, k) \in rocks
  THEN Counted(ProbedCell(at, k), Push(at, ProbedCell(at, k)))
  ELSE [sum |-> <<0, 0>>, hits |-> << >>]

Joined(a, b) == [sum |-> Plus(a.sum, b.sum), hits |-> a.hits \o b.hits]

\* lines 335-369 with every push computed from positionRef as the pushes before
\* it have left it, in place of px and pz
RECURSIVE Resolved_Chained(_, _, _, _)
Resolved_Chained(at, rocks, lo, hi) ==
  IF lo = hi THEN Probed(at, rocks, lo)
  ELSE LET first == Resolved_Chained(at, rocks, lo, (lo + hi) \div 2)
       IN Joined(first,
                 Resolved_Chained([at EXCEPT !.x = at.x + first.sum[1], !.z = at.z + first.sum[2]],
                                  rocks, ((lo + hi) \div 2) + 1, hi))

\* lines 335-369, iterations lo .. hi: every push is computed from px and pz
\* and added to positionRef, so the iterations are summed by halves.  sum is
\* the displacement added, hits lists the voxels that pushed, in loop order.
RECURSIVE Resolved(_, _, _, _)
Resolved(at, rocks, lo, hi) ==
  IF lo = hi THEN Probed(at, rocks, lo)
  ELSE Joined(Resolved(at, rocks, lo, (lo + hi) \div 2),
              Resolved(at, rocks, ((lo + hi) \div 2) + 1, hi))

\* lines 329-331 and 350-351: px, pz, the feet and the head when the pass starts
PassStart(x, z, y) == [x |-> x, z |-> z, feet |-> y - PLAYER_HEIGHT, head |-> y]

\* lines 327-369: the player after the pass
Displaced(at, res, fr) ==
  [fr EXCEPT !.x = at.x + res.sum[1], !.z = at.z + res.sum[2],
             !.entry = at, !.hits = res.hits]

Collided(fr, at, rocks) == Displaced(at, Resolved(at, rocks, 1, Span * Span * LevelCount), fr)

\* line 324
Snapped(fr, y, rocks) == Collided([fr EXCEPT !.y = y], PassStart(fr.x, fr.z, y), rocks)

\* lines 318-321
Walked(fr, mv) == [fr EXCEPT !.x = fr.x + mv[1], !.z = fr.z + mv[2]]

\* lines 311-369
Stepped(fr, mv, hs, rocks) ==
  Snapped(Walked(fr, mv), SurfaceUnder(fr.x + mv[1], fr.z + mv[2], hs) + PLAYER_HEIGHT, rocks)

\* lines 308-369
Faced(fr, fwd, keys, n, hs, rocks) ==
  Stepped([fr EXCEPT !.forward = fwd], MoveOf(MoveSum(fwd, RightOf(fwd), keys), n), hs, rocks)

\* lines 302-369: a frame of n sixtieths with keys held
useFrame(fr, keys, n, hs, rocks) ==
  Faced([fr EXCEPT !.yaw = Yawed(fr.yaw, keys, n), !.pitch = Pitched(fr.pitch, keys, n)],
        ForwardOf(Yawed(fr.yaw, keys, n)), keys, n, hs, rocks)

\* the grid keys of every voxel of the lists: lines 662-673 without the test
\* of line 665
rockVoxelSet_AnyColor(tr) ==
  {<<RoundCell(tr.positions[i][1] * VOXEL_SIZE), RoundCell(tr.positions[i][2] * VOXEL_SIZE),
     RoundCell(tr.positions[i][3] * VOXEL_SIZE)>> : i \in 1 .. Len(tr.positions)}

\* rockVoxelSet, lines 662-673: the grid keys of the rock voxels of the lists
rockVoxelSet(tr) ==
  {<<RoundCell(tr.positions[i][1] * VOXEL_SIZE), RoundCell(tr.positions[i][2] * VOXEL_SIZE),
     RoundCell(tr.positions[i][3] * VOXEL_SIZE)>> :
     i \in {j \in 1 .. Len(tr.positions) : tr.colors[j] = "rock"}}

\* the scene the player walks in: generatePlanet(3), line 656
MountedScene == generatePlanet(3, 0)

MountedRocks == rockVoxelSet(MountedScene)

\* the rock of the scene, or what is left of it when every rock voxel but
\* one has been clicked away
RockSets == {MountedRocks} \cup {{v} : v \in MountedRocks \cap {<<0, 0, 0>>, <<1, 0, 0>>, <<1, 1, 0>>}}

\* where the walk starts: the spawn point of line 651, or a point walked to
Spawn == [x |-> 0, y |-> 10 * VOXEL_SIZE, z |-> 0]

\* the pitch the walk starts with: 0 of line 294, or one that rotateUp held for
\* 26 frames, or rotateDown held for 13 frames, has left
PitchStarts == {0, 26 * PitchTurn(1), -13 * PitchTurn(1)}

Starts ==
  {Spawn}
    \cup {[x |-> p[1], z |-> p[2],
           y |-> SurfaceUnder(p[1], p[2], MountedScene.heights) + PLAYER_HEIGHT] :
            p \in {<<0, 12000>>, <<-5, 15000>>, <<3000, 12000>>, <<14000, 5000>>,
                   <<16000, 5000>>}}

NoPass == [x |-> 0, z |-> 0, feet |-> 0, head |-> 0]

WalkInit ==
  /\ ground = MountedScene.heights
  /\ rockVoxels \in RockSets
  /\ position \in Starts
  /\ forward = <<0, -VOXEL_SIZE>>
  /\ yaw = 0
  /\ pitch \in PitchStarts
  /\ before = position
  /\ entry = NoPass
  /\ hits = << >>
  /\ walkTicks = 0

\* one call of the useFrame callback, lines 298-378
Tick ==
  /\ walkTicks < MaxWalkTicks
  /\ \E keys \in Intents, n \in DeltaFrames :
       /\ Abs(Yawed(yaw, keys, n)) < Len(TrigRows)
       /\ \E fr \in {useFrame([x |-> position.x, y |-> position.y, z |-> position.z,
                               yaw |-> yaw, pitch |-> pitch, forward |-> forward,
                               entry |-> entry, hits |-> hits],
                              keys, n, ground, rockVoxels)} :
            /\ position' = [x |-> fr.x, y |-> fr.y, z |-> fr.z]
            /\ forward' = fr.forward
            /\ yaw' = fr.yaw
            /\ pitch' = fr.pitch
            /\ entry' = fr.entry
            /\ hits' = fr.hits
  /\ before' = position
  /\ walkTicks' = walkTicks + 1
  /\ UNCHANGED <<ground, rockVoxels>>

\* Player has no props
PropsIdle ==
  /\ ground = << >>
  /\ rockVoxels = {}

\* no player walks
PlayerIdle ==
  /\ position = [x |-> 0, y |-> 0, z |-> 0]
  /\ forward = <<0, 0>>
  /\ yaw = 0
  /\ pitch = 0
  /\ before = [x |-> 0, y |-> 0, z |-> 0]
  /\ entry = NoPass
  /\ hits = << >>
  /\ walkTicks = 0

WalkIdle == PropsIdle /\ PlayerIdle

(***************************************************************************)
(* GeoScene.tsx: the edits of the terrain.  A click on rock instance id    *)
(* runs handleRockClick; a click on a mesh of PlanetVoxels runs            *)
(* removeVoxel.  setTerrain and setSubVoxels replace the state of          *)
(* GeoScene, which renders again before the next event: rockVoxelSet is    *)
(* recomputed and Player receives the new terrain and the new set.  A list *)
(* index is that of the code (from 0); a fragment position is in units of  *)
(* 0.0001; no vector (null) is << >>.                                      *)
(***************************************************************************)
\* Array.prototype.filter((_, i) => i !== index), lines 147-148 and 546-547:
\* the list returned
Without(list, index) ==
  IF index < 0 \/ index >= Len(list) THEN list
  ELSE [j \in 1 .. (Len(list) - 1) |-> IF j <= index THEN list[j] ELSE list[j + 1]]

\* the same removal done in place, what splice(index, 1) leaves in the list
\* it is called on
Receiver_Spliced(list, index) == Without(list, index)

\* lines 147-148 and 546-547: what filter leaves in the list it is called on
Receiver(list, index) == list

\* lines 622-624: the terrain indices of the rock voxels, and entry id of them
RockIndices(tr) == {j \in 0 .. (Len(tr.colors) - 1) : tr.colors[j + 1] = "rock"}

TerrainIndex(rocks, id) ==
  IF id >= Cardinality(rocks) THEN -1
  ELSE CHOOSE j \in rocks : Cardinality({i \in rocks : i < j}) = id

\* lines 565-567: 0 = x, 1 = y, 2 = z
Axis(face) ==
  IF Abs(face[1]) > Abs(face[2]) /\ Abs(face[1]) > Abs(face[3]) THEN 0
  ELSE IF Abs(face[3]) > Abs(face[2]) THEN 2 ELSE 1

\* lines 574-575: Math.sqrt(0.15) * VOXEL_SIZE / 2
HalfS == Sqrt(1500 * VOXEL_SIZE) \div 2

\* lines 586-592: centre k = 1 .. 64 of the sub-voxels, relative to the voxel
\* centre, ix outermost and iz innermost
SubCentre(k) ==
  <<RoundDiv((2 * ((k - 1) \div 16) + 1) * VOXEL_SIZE, 8) - HalfVoxel,
    RoundDiv((2 * (((k - 1) \div 4) % 4) + 1) * VOXEL_SIZE, 8) - HalfVoxel,
    RoundDiv((2 * ((k - 1) % 4) + 1) * VOXEL_SIZE, 8) - HalfVoxel>>

\* lines 593-598: the sub-voxel is inside the prism under the click
InPrism(centre, local, axis) ==
  /\ Abs(centre[((axis + 1) % 3) + 1] - local[((axis + 1) % 3) + 1]) <= HalfS
  /\ Abs(centre[((axis + 2) % 3) + 1] - local[((axis + 2) % 3) + 1]) <= HalfS

\* lines 585-605: the sub-voxels lo .. hi that stay, in the order of the loops
RECURSIVE StaticPositions(_, _, _, _, _)
StaticPositions(orig, local, axis, lo, hi) ==
  IF lo = hi
  THEN IF InPrism(SubCentre(lo), local, axis) THEN << >>
       ELSE <<<<orig[1] * VOXEL_SIZE + SubCentre(lo)[1],
                orig[2] * VOXEL_SIZE + SubCentre(lo)[2],
                orig[3] * VOXEL_SIZE + SubCentre(lo)[3]>>>>
  ELSE StaticPositions(orig, local, axis, lo, (lo + hi) \div 2)
         \o StaticPositions(orig, local, axis, ((lo + hi) \div 2) + 1, hi)

\* line 570: the click point relative to the voxel centre
Local(point, orig) ==
  <<point[1] - orig[1] * VOXEL_SIZE, point[2] - orig[2] * VOXEL_SIZE,
    point[3] - orig[3] * VOXEL_SIZE>>

\* the faces a click can hit, and no face
Faces == {<< >>, <<0, 1, 0>>, <<-1, 0, 0>>}

\* points of the face with normal face of the voxel at orig: the centre of the
\* face and a point near one of its corners; and no point
PointsOn(orig, face) ==
  {<< >>}
    \cup {<<orig[1] * VOXEL_SIZE + face[1] * HalfVoxel + (1 - Abs(face[1])) * d,
            orig[2] * VOXEL_SIZE + face[2] * HalfVoxel + (1 - Abs(face[2])) * d,
            orig[3] * VOXEL_SIZE + face[3] * HalfVoxel + (1 - Abs(face[3])) * d>> :
            d \in {0, 4000}}

\* instance ids of the rock mesh that are clicked
InstanceIds == {0}

\* lines 607 and 149: setTerrain({ ...terrain, positions, colors })
Replaced(tr, index) ==
  [positions |-> Without(tr.positions, index), colors |-> Without(tr.colors, index),
   heights |-> tr.heights]

\* the lists of tr after the handler has run filter on them
AfterFilter(tr, index) ==
  [positions |-> Receiver(tr.positions, index), colors |-> Receiver(tr.colors, index),
   heights |-> tr.heights]

NoEdit == [kind |-> "none", index |-> -1, voxel |-> << >>, fragments |-> 0]

\* GeoScene has mounted, lines 656-673
EditInit ==
  /\ seed \in Seeds
  /\ \E g \in {generatePlanet(seed, 0)} :
       /\ terrain = [positions |-> g.positions, colors |-> g.colors, heights |-> g.heights]
       /\ ambient = g.amb
       /\ ground = g.heights
       /\ rockVoxels = rockVoxelSet(g)
  /\ prevSeed = 0
  /\ prevTerrain = NoTerrain
  /\ genCalls = 1
  /\ subVoxels = << >>
  /\ readerSaw = NoTerrain
  /\ readerHolds = NoTerrain
  /\ lastEdit = NoEdit
  /\ edits = 0

\* the state replacement of lines 607-608 or 149 and the render that follows
Commit(index, voxel, statics, kind) ==
  /\ terrain' = Replaced(terrain, index)
  /\ subVoxels' = subVoxels \o statics
  /\ rockVoxels' = rockVoxelSet(terrain')
  /\ ground' = terrain'.heights
  /\ readerSaw' = terrain
  /\ readerHolds' = AfterFilter(terrain, index)
  /\ lastEdit' = [kind |-> kind, index |-> index, voxel |-> voxel, fragments |-> Len(statics)]

\* onPointerDown of the rock mesh, lines 617-629, and handleRockClick, lines
\* 543-609.  Without a face line 559 draws from Math.random(); without a face
\* or a point line 563 returns.
RockClick ==
  /\ edits < MaxEdits
  /\ \E id \in InstanceIds, face \in Faces :
       \E index \in {TerrainIndex(RockIndices(terrain), id)} :
         /\ index >= 0
         /\ ambient' = IF face = << >> THEN NextAmbient(ambient) ELSE ambient
         /\ \E point \in PointsOn(terrain.positions[index + 1],
                                  IF face = << >> THEN <<0, 0, 0>> ELSE face) :
              IF face = << >> \/ point = << >>
              THEN /\ lastEdit' = [kind |-> "return", index |-> index,
                                   voxel |-> terrain.positions[index + 1], fragments |-> 0]
                   /\ UNCHANGED <<terrain, subVoxels, rockVoxels, ground, readerSaw,
                                  readerHolds>>
              ELSE Commit(index, terrain.positions[index + 1],
                          StaticPositions(terrain.positions[index + 1],
                                          Local(point, terrain.positions[index + 1]),
                                          Axis(face), 1, 64),
                          "click")
  /\ edits' = edits + 1
  /\ UNCHANGED <<seed, prevSeed, prevTerrain, genCalls>>

\* onClick of a mesh of PlanetVoxels, line 156, and removeVoxel, lines 146-150
RemoveVoxel ==
  /\ edits < MaxEdits
  /\ \E index \in {0} :
       Commit(index, terrain.positions[index + 1], << >>, "remove")
  /\ edits' = edits + 1
  /\ UNCHANGED <<seed, ambient, prevSeed, prevTerrain, genCalls>>

\* nothing is edited
EditIdle ==
  /\ subVoxels = << >>
  /\ readerSaw = NoTerrain
  /\ readerHolds = NoTerrain
  /\ lastEdit = NoEdit
  /\ edits = 0

(***************************************************************************)
(* part_000 lines 1-38: the loader of the interaction module.  An exports  *)
(* object is known by the number of its creation; kinds[id] tells whether  *)
(* it is the instance of the module ("wasm") or the object of lines 27-35  *)
(* ("fallback").  0 is null.  A call of loadWasm is a record [pc, began,   *)
(* result]: pc is where the call is ("fetch" and "instantiate" are its     *)
(* awaits), began is the set of calls that had returned when it began,     *)
(* result is the object it resolved to.                                    *)
(***************************************************************************)
\* the calls that have returned
Settled(cs) == {i \in 1 .. Len(cs) : cs[i].pc \in {"resolved", "rejected"}}

\* lines 24-37: the catch block returns the fallback object id
Thrown(c, id) == [c EXCEPT !.pc = "resolved", !.result = id]

WasmInit ==
  /\ wasmInstance = 0
  /\ kinds = << >>
  /\ calls = << >>
  /\ loads = 0
  /\ streaming \in BOOLEAN

\* loadWasm is called: line 9 returns the cached object, else line 13 or 18
\* starts the fetch
LoadWasm ==
  /\ Len(calls) < MaxCalls
  /\ calls' = Append(calls,
                     IF wasmInstance # 0
                     THEN [pc |-> "resolved", began |-> Settled(calls), result |-> wasmInstance]
                     ELSE [pc |-> "fetch", began |-> Settled(calls), result |-> 0])
  /\ UNCHANGED <<wasmInstance, kinds, loads, streaming>>

\* lines 24-37: the catch block of call i
Catch(i) ==
  /\ kinds' = Append(kinds, "fallback")
  /\ wasmInstance' = Len(kinds) + 1
  /\ calls' = [calls EXCEPT ![i] = Thrown(calls[i], Len(kinds) + 1)]
  /\ UNCHANGED loads

\* the fetch of call i settles, line 13 or 18: the response (or its bytes)
\* arrives, or the promise rejects
FetchSettles ==
  /\ \E i \in 1 .. Len(calls), ok \in BOOLEAN :
       /\ calls[i].pc = "fetch"
       /\ IF ok
          THEN /\ calls' = [calls EXCEPT ![i].pc = "instantiate"]
               /\ UNCHANGED <<wasmInstance, kinds, loads>>
          ELSE Catch(i)
  /\ UNCHANGED streaming

\* the instantiation of call i settles, lines 14-16 or 19-21, and the call
\* returns, line 23
InstantiateSettles ==
  /\ \E i \in 1 .. Len(calls), ok \in BOOLEAN :
       /\ calls[i].pc = "instantiate"
       /\ IF ok
          THEN /\ kinds' = Append(kinds, "wasm")
               /\ wasmInstance' = Len(kinds) + 1
               /\ loads' = loads + 1
               /\ calls' = [calls EXCEPT ![i] = [@ EXCEPT !.pc = "resolved",
                                                         !.result = Len(kinds) + 1]]
          ELSE Catch(i)
  /\ UNCHANGED streaming

\* the loader is not used
WasmIdle ==
  /\ wasmInstance = 0
  /\ kinds = << >>
  /\ calls = << >>
  /\ loads = 0
  /\ streaming = FALSE

(***************************************************************************)
(* The spherical player, part_000 lines 261-391.  A direction from the     *)
(* planet centre is <<p, q>>: polar angle p * pi / FineDen from +y and     *)
(* azimuth q * pi / FineDen (atan2(z, x)).  A tangent vector is given by   *)
(* its components along east and north of a direction, times 10000.        *)
(* Lengths are in units of 0.0001, frame times in sixtieths of a second.   *)
(* normalize(v + t), for a tangent t much shorter than v, turns v by the   *)
(* angle |t| / |v| towards t: atan is taken as the identity on these small *)
(* quotients, and the tangent basis is taken as constant over the turn.    *)
(***************************************************************************)
\* angles of the player are multiples of pi / FineDen
FineDen == 20 * AngleDen

\* part_000 lines 61-62
STEP_MAX == (VOXEL_SIZE_SPHERE * 26) \div 10

DECAL_IGNORE == (VOXEL_SIZE_SPHERE * 6) \div 10

\* part_000 line 63: PLAYER_RADIUS = 0.16
PLAYER_RADIUS_SPHERE == 1600

\* sin of the polar angle p * pi / FineDen, times 10000 (pi / 0.03 = 104.72)
SinPolar(p) == Sin(RoundDiv(Max(0, Min(p, FineDen - p)) * 10472, FineDen * 100))

\* the direction <<p, q>> with its polar angle brought back into 0 .. pi
Wrapped(d) ==
  IF d[1] < 0 THEN <<-d[1], d[2] + FineDen>>
  ELSE IF d[1] > FineDen THEN <<2 * FineDen - d[1], d[2] + FineDen>>
  ELSE d

\* the angle |t| / |v| in units of pi / FineDen (pi = 3927 / 1250)
Swing(len, r) == RoundDiv(len * FineDen, RoundDiv(r * 3927, 1250))

\* the normal along d is parallel to up = (0, 1, 0): up x normal is the zero
\* vector, which normalize() of three.js leaves as it is (divideScalar(length()
\* || 1)), so east and north of lines 319-320 are both (0, 0, 0)
AtPole(d) == d[1] = 0 \/ d[1] = FineDen

\* lines 319-320 (and 304-305): east = up x normal points to lower azimuth,
\* north = normal x east to lower polar angle; both are the zero vector at a
\* pole.  The direction d turned by angle along the tangent unit vector t.
Turned(d, t, angle) ==
  IF AtPole(d) THEN d ELSE
  Wrapped(<<d[1] - RoundDiv(t[2] * angle, 10000),
            d[2] - (IF SinPolar(d[1]) = 0 THEN 0
                    ELSE RoundDiv(t[1] * angle, SinPolar(d[1])))>>)

\* sampleSurfaceRadius, part_000 lines 228-253, along direction d, to 0.0001;
\* the interpolated height is rounded to a hundredth of a voxel
SurfaceAlong(d, hs) ==
  LET phi == Max(0, Min(FineDen, d[1]))
      latNum == phi * (LAT_STEPS - 1)
      lonNum == ((d[2] + 2 * FineDen) % (2 * FineDen)) * LON_STEPS
      lat0 == latNum \div FineDen
      lon0 == (lonNum \div (2 * FineDen)) % LON_STEPS
      lat1 == Lat1(lat0)
      lon1 == Lon1(lon0)
      t == latNum - lat0 * FineDen
      u == lonNum - lon0 * 2 * FineDen
      h0 == Lerp(ReadOr1(hs, lat0 * LON_STEPS + lon0),
                 ReadOr1(hs, lat1 * LON_STEPS + lon0), t, FineDen)
      h1 == Lerp(ReadOr1(hs, lat0 * LON_STEPS + lon1),
                 ReadOr1(hs, lat1 * LON_STEPS + lon1), t, FineDen)
      height == Lerp(h0, h1, u, 2 * FineDen)
  IN PLANET_RADIUS
       + (RoundDiv(height * 100, 2 * FineDen * FineDen) * VOXEL_SIZE_SPHERE) \div 100

\* lines 322-323: inputX and inputY of the keys held
Inputs == {<<x, y>> : x \in -1 .. 1, y \in -1 .. 1}

\* lines 326-335: move and moveWorld; north and east are orthogonal to the
\* normal, so the projection of lines 333-335 leaves move as it is
MoveWorld(input) == Normalized(<<input[1] * VOXEL_SIZE, input[2] * VOXEL_SIZE>>)

\* lines 326-335 at direction d, in the coordinates <<east, north>> of the
\* tangent plane (the whole vector at a pole, where east = north = 0)
MoveAt(d, input) == IF AtPole(d) THEN <<0, 0>> ELSE MoveWorld(input)

\* line 320 (and 305): north, in the same coordinates
NorthAt(d) == IF AtPole(d) THEN <<0, 0>> ELSE <<0, 10000>>

\* 2.1 * delta, line 337
Stride(n) == 350 * n

\* lines 337-338: candidate, the direction of position + moveWorld * 2.1 * delta
Candidate(pos, input, n) == Turned(pos.dir, MoveAt(pos.dir, input), Swing(Stride(n), pos.len))

\* lines 346-347: (cos, sin) of ang = i / 8 * 2 pi, for i = 0 .. 7
RingRows ==
  <<<<10000, 0>>, <<7071, 7071>>, <<0, 10000>>, <<-7071, 7071>>,
    <<-10000, 0>>, <<-7071, -7071>>, <<0, -10000>>, <<7071, -7071>>>>

\* lines 349, 352: samplePos and its surface radius.  position has length
\* pos.len.
SSurf(pos, i, hs) ==
  SurfaceAlong(Turned(pos.dir, RingRows[i], Swing(PLAYER_RADIUS_SPHERE, pos.len)), hs)

\* lines 350, 353: sampleCandPos and its surface radius.  candidate has been
\* normalized (line 338), so the offset is added to a vector of length 1.
CSurf(cand, i, hs) ==
  SurfaceAlong(Turned(cand, RingRows[i], Swing(PLAYER_RADIUS_SPHERE, 10000)), hs)

\* lines 341-357: the largest of the samples lo .. hi
RECURSIVE CurrentMax(_, _, _, _)
CurrentMax(pos, hs, lo, hi) ==
  IF lo = hi THEN SSurf(pos, lo, hs)
  ELSE Max(SSurf(pos, lo, hs), CurrentMax(pos, hs, lo + 1, hi))

RECURSIVE CandidateMax(_, _, _, _)
CandidateMax(cand, hs, lo, hi) ==
  IF lo = hi THEN CSurf(cand, lo, hs)
  ELSE Max(CSurf(cand, lo, hs), CandidateMax(cand, hs, lo + 1, hi))

\* lines 360-362
Flattened(currentMax, candidateMax) ==
  IF candidateMax - currentMax <= DECAL_IGNORE THEN currentMax ELSE candidateMax

\* line 365, as a wall at any rise that is left after the flattening
Passable_Level(currentMax, candidateMax) == candidateMax - currentMax <= 0

\* line 365
Passable(currentMax, candidateMax) == candidateMax - currentMax <= STEP_MAX

\* lines 325-370: what the lateral block samples and decides
Lateral(pos, input, n, hs) ==
  LET cand == Candidate(pos, input, n)
      currentMax == CurrentMax(pos, hs, 1, 8)
      candidateMax == CandidateMax(cand, hs, 1, 8)
      flat == Flattened(currentMax, candidateMax)
  IN [intent |-> TRUE, input |-> input, n |-> n, candidate |-> cand,
      currentMax |-> currentMax, candidateMax |-> candidateMax,
      accepted |-> Passable(currentMax, flat),
      moved |-> [dir |-> cand, len |-> flat],
      moveWorld |-> [at |-> pos.dir, east |-> MoveAt(pos.dir, input)[1],
                     north |-> MoveAt(pos.dir, input)[2]]]

\* line 325 is false: the lateral block is skipped
NoLateral(n) ==
  [intent |-> FALSE, input |-> <<0, 0>>, n |-> n, candidate |-> <<0, 0>>,
   currentMax |-> 0, candidateMax |-> 0, accepted |-> FALSE,
   moved |-> [dir |-> <<0, 0>>, len |-> 0],
   moveWorld |-> [at |-> <<0, 0>>, east |-> 0, north |-> 0]]

NoFrame == [lat |-> NoLateral(0), normal |-> <<0, 0>>, targetSurface |-> 0,
            radial |-> 0, radialVelocity |-> 0, forward |-> << >>]

\* seeds of the spherical scene; the second draw of mulberry32(631835670) is
\* 0, so its spawn point is the pole (0, PLANET_RADIUS, 0)
GlobeSeeds == {5, 8, 14, 15, 18, 22, 631835670}

\* lines 294-296: the spawn direction, from the first two draws of
\* mulberry32(seed): theta = rng() * 2 pi, phi = rng() * pi
SpawnDir(sd) == <<FloorMul(Draw(W32(sd), 2), FineDen), FloorMul(Draw(W32(sd), 1), 2 * FineDen)>>

\* GeoScene and the effect of Player, lines 293-313 and 506: the player stands
\* on the surface at the spawn direction, facing north
GlobeInit ==
  /\ globeSeed \in GlobeSeeds
  /\ globeHeights = SphereHeights(globeSeed)
  /\ globeNormal = SpawnDir(globeSeed)
  /\ globeRadial = SurfaceAlong(globeNormal, globeHeights)
  /\ globeVelocity = 0
  /\ globePosition = [dir |-> globeNormal, len |-> globeRadial]
  /\ globeForward = [at |-> globeNormal, east |-> NorthAt(globeNormal)[1],
                      north |-> NorthAt(globeNormal)[2]]
  /\ globeLast = NoFrame
  /\ globeTicks = 0

\* useFrame, lines 317-391, for delta = n / 60 and the keys of input
GlobeFrame ==
  /\ globeTicks < MaxGlobeTicks
  /\ \E input \in Inputs, n \in DeltaFrames :
       \E lat \in {IF input # <<0, 0>>
                   THEN Lateral(globePosition, input, n, globeHeights)
                   ELSE NoLateral(n)} :
         LET normal == globePosition.dir                           \* line 318
             target == SurfaceAlong(normal, globeHeights)          \* line 373
             nextVelocity == NextVelocity(target, globeRadial, globeVelocity, n)
             nextRadial == NextRadial(target, globeRadial, globeVelocity, n)
         IN /\ globeForward' = (IF lat.accepted THEN lat.moveWorld  \* line 368
                                ELSE globeForward)
            /\ globeRadial' = nextRadial                            \* line 380
            /\ globeVelocity' = nextVelocity                        \* line 381
            \* line 382 writes over the position of line 367
            /\ globePosition' = [dir |-> normal, len |-> nextRadial]
            /\ globeNormal' = normal                                \* line 386
            /\ globeLast' = [lat |-> lat, normal |-> normal,
                             targetSurface |-> target,
                             radial |-> globeRadial,
                             radialVelocity |-> globeVelocity,
                             forward |-> globeForward]
  /\ globeTicks' = globeTicks + 1
  /\ UNCHANGED <<globeSeed, globeHeights>>

\* no spherical scene is mounted
GlobeIdle ==
  /\ globeSeed = 0
  /\ globeHeights = << >>
  /\ globePosition = [dir |-> <<0, 0>>, len |-> 0]
  /\ globeForward = << >>
  /\ globeNormal = <<0, 0>>
  /\ globeRadial = 0
  /\ globeVelocity = 0
  /\ globeLast = NoFrame
  /\ globeTicks = 0

(***************************************************************************)
(* The orbit camera, CameraRig of GeoScene.tsx (lines 388-454) and of      *)
(* part_000 (lines 405-471).  Angles and lengths are in units of 0.0001;   *)
(* pointer coordinates are in pixels.  The listeners of the effect are     *)
(* attached exactly while mode is 'iso' (lines 407-408 and 443-454).       *)
(***************************************************************************)
\* PLANET_RADIUS * 1.2 and PLANET_RADIUS * 6, lines 437-440
MinDistance == (PLANET_RADIUS * 12) \div 10

MaxDistance == PLANET_RADIUS * 6

\* the clamp of the polar angle, line 425: 0.35 and 1.35
MinPolar == 3500

MaxPolar == 13500

\* orbitRef as constructed, lines 390-397: azimuth pi / 4, polar pi / 3, and the
\* distance 50 in GeoScene.tsx, PLANET_RADIUS * 2.4 in part_000
FirstOrbit(r) ==
  [azimuth |-> 7854, polar |-> 10472,
   distance |-> IF r = "planar" THEN 500000 ELSE (PLANET_RADIUS * 24) \div 10,
   dragging |-> FALSE, lastX |-> 0, lastY |-> 0]

\* onPointerDown without the test of the button
onPointerDown_AnyButton(o, button, x, y) ==
  [o EXCEPT !.dragging = TRUE, !.lastX = x, !.lastY = y]

\* onPointerDown, lines 410-415
onPointerDown(o, button, x, y) ==
  IF button # 0 THEN o
  ELSE [o EXCEPT !.dragging = TRUE, !.lastX = x, !.lastY = y]

\* onPointerMove, lines 417-429: 0.005 rad for each pixel
onPointerMove(o, x, y) ==
  IF ~o.dragging THEN o
  ELSE [o EXCEPT !.azimuth = @ - (x - o.lastX) * 50,
                 !.polar = Min(Max(MinPolar, @ - (y - o.lastY) * 50), MaxPolar),
                 !.lastX = x, !.lastY = y]

\* onPointerUp, lines 431-433
onPointerUp(o) == [o EXCEPT !.dragging = FALSE]

\* onWheel, lines 435-441: deltaY * 0.01
onWheel(o, deltaY) ==
  [o EXCEPT !.distance = Min(Max(MinDistance, @ + deltaY * 100), MaxDistance)]

\* where the pointer is when an event is dispatched
Points == {<<0, 0>>, <<100, 100>>, <<0, 300>>}

\* event.button: primary and secondary
Buttons == {0, 2}

\* event.deltaY of a wheel event
WheelDeltas == {-3000, -100, 100, 3000}

CamInit ==
  /\ rig \in {"planar", "spherical"}
  /\ camMode \in {"iso", "first"}
  /\ orbit = FirstOrbit(rig)
  /\ held = FALSE
  /\ awayInDrag = FALSE
  /\ camEvents = 0

\* a pointerdown event on the window
PointerDown ==
  /\ camMode # "none" /\ camEvents < MaxCamEvents
  /\ \E pt \in Points, button \in Buttons :
       /\ orbit' = (IF camMode = "iso" THEN onPointerDown(orbit, button, pt[1], pt[2])
                    ELSE orbit)
       /\ held' = (IF camMode = "iso" /\ button = 0 THEN TRUE ELSE held)
       /\ awayInDrag' = (IF camMode = "iso" /\ button = 0 THEN FALSE ELSE awayInDrag)
  /\ camEvents' = camEvents + 1
  /\ UNCHANGED <<rig, camMode>>

\* a pointermove event on the window
PointerMove ==
  /\ camMode # "none" /\ camEvents < MaxCamEvents
  /\ \E pt \in Points :
       orbit' = (IF camMode = "iso" THEN onPointerMove(orbit, pt[1], pt[2]) ELSE orbit)
  /\ camEvents' = camEvents + 1
  /\ UNCHANGED <<rig, camMode, held, awayInDrag>>

\* a pointerup event on the window
PointerUp ==
  /\ camMode # "none" /\ camEvents < MaxCamEvents
  /\ orbit' = (IF camMode = "iso" THEN onPointerUp(orbit) ELSE orbit)
  /\ held' = (IF camMode = "iso" THEN FALSE ELSE held)
  /\ awayInDrag' = (IF camMode = "iso" THEN FALSE ELSE awayInDrag)
  /\ camEvents' = camEvents + 1
  /\ UNCHANGED <<rig, camMode>>

\* a wheel event on the window
Wheel ==
  /\ camMode # "none" /\ camEvents < MaxCamEvents
  /\ \E deltaY \in WheelDeltas :
       orbit' = (IF camMode = "iso" THEN onWheel(orbit, deltaY) ELSE orbit)
  /\ camEvents' = camEvents + 1
  /\ UNCHANGED <<rig, camMode, held, awayInDrag>>

\* the cameraMode prop changes: the effect's cleanup removes the listeners,
\* the effect runs again for the new mode; orbitRef is kept
SetMode ==
  /\ camMode # "none" /\ camEvents < MaxCamEvents
  /\ camMode' = (IF camMode = "iso" THEN "first" ELSE "iso")
  /\ awayInDrag' = (awayInDrag \/ (held /\ camMode = "iso"))
  /\ camEvents' = camEvents + 1
  /\ UNCHANGED <<rig, orbit, held>>

\* no camera is mounted
CamIdle ==
  /\ rig = "none"
  /\ camMode = "none"
  /\ orbit = << >>
  /\ held = FALSE
  /\ awayInDrag = FALSE
  /\ camEvents = 0

\* the subsystems that follow the spring are idle
MoreIdle == WalkIdle /\ EditIdle /\ WasmIdle /\ GlobeIdle /\ CamIdle

(***************************************************************************)
(* Specifications, one for each subsystem.  They share no state.           *)
(***************************************************************************)
Init == WorkerInit /\ SceneIdle /\ FieldIdle /\ SpringIdle /\ MoreIdle

Next ==
  \/ RecvInit /\ UNCHANGED <<sceneVars, fieldVars, springVars, moreVars>>
  \/ InitResume /\ UNCHANGED <<sceneVars, fieldVars, springVars, moreVars>>
  \/ RecvSpawn /\ UNCHANGED <<sceneVars, fieldVars, springVars, moreVars>>
  \/ TimerTick /\ UNCHANGED <<sceneVars, fieldVars, springVars, moreVars>>

Spec == Init /\ [][Next]_vars

InitGen == SceneInit /\ WorkerIdle /\ FieldIdle /\ SpringIdle /\ MoreIdle

NextGen == Mount /\ UNCHANGED <<workerVars, fieldVars, springVars, moreVars>>

SpecGen == InitGen /\ [][NextGen]_vars

InitField == FieldInit /\ WorkerIdle /\ SceneIdle /\ SpringIdle /\ MoreIdle

NextField ==
  \/ QueryPlanar /\ UNCHANGED <<workerVars, sceneVars, springVars, moreVars>>
  \/ QuerySpherical /\ UNCHANGED <<workerVars, sceneVars, springVars, moreVars>>

SpecField == InitField /\ [][NextField]_vars

InitSpring == SpringInit /\ WorkerIdle /\ SceneIdle /\ FieldIdle /\ MoreIdle

NextSpring == Frame /\ UNCHANGED <<workerVars, sceneVars, fieldVars, moreVars>>

SpecSpring == InitSpring /\ [][NextSpring]_vars

\* the subsystems before the walk are idle
FirstIdle == WorkerIdle /\ SceneIdle /\ FieldIdle /\ SpringIdle

firstVars == <<workerVars, sceneVars, fieldVars, springVars>>

InitWalk == WalkInit /\ FirstIdle /\ EditIdle /\ WasmIdle /\ GlobeIdle /\ CamIdle

NextWalk == Tick /\ UNCHANGED <<firstVars, editVars, wasmVars, globeVars, camVars>>

SpecWalk == InitWalk /\ [][NextWalk]_vars

InitEdit ==
  EditInit /\ WorkerIdle /\ FieldIdle /\ SpringIdle /\ PlayerIdle /\ WasmIdle /\ GlobeIdle /\ CamIdle

playerVars == <<position, forward, yaw, pitch, before, entry, hits, walkTicks>>

NextEdit ==
  \/ RockClick /\ UNCHANGED <<workerVars, fieldVars, springVars, playerVars, wasmVars,
                             globeVars, camVars>>
  \/ RemoveVoxel /\ UNCHANGED <<workerVars, fieldVars, springVars, playerVars, wasmVars,
                             globeVars, camVars>>

SpecEdit == InitEdit /\ [][NextEdit]_vars

InitWasm == WasmInit /\ FirstIdle /\ WalkIdle /\ EditIdle /\ GlobeIdle /\ CamIdle

NextWasm ==
  \/ LoadWasm /\ UNCHANGED <<firstVars, walkVars, editVars, globeVars, camVars>>
  \/ FetchSettles /\ UNCHANGED <<firstVars, walkVars, editVars, globeVars, camVars>>
  \/ InstantiateSettles /\ UNCHANGED <<firstVars, walkVars, editVars, globeVars, camVars>>

SpecWasm == InitWasm /\ [][NextWasm]_vars

InitGlobe == GlobeInit /\ FirstIdle /\ WalkIdle /\ EditIdle /\ WasmIdle /\ CamIdle

NextGlobe ==
  GlobeFrame /\ UNCHANGED <<firstVars, walkVars, editVars, wasmVars, camVars>>

SpecGlobe == InitGlobe /\ [][NextGlobe]_vars

InitCam == CamInit /\ FirstIdle /\ WalkIdle /\ EditIdle /\ WasmIdle /\ GlobeIdle

otherVars == <<firstVars, walkVars, editVars, wasmVars, globeVars>>

NextCam ==
  \/ PointerDown /\ UNCHANGED otherVars
  \/ PointerMove /\ UNCHANGED otherVars
  \/ PointerUp /\ UNCHANGED otherVars
  \/ Wheel /\ UNCHANGED otherVars
  \/ SetMode /\ UNCHANGED otherVars

SpecCam == InitCam /\ [][NextCam]_vars

(***************************************************************************)
(* Properties of the debris worker.                                        *)
(***************************************************************************)
ActiveCount == Cardinality(ActiveSlots(pool))

\* the slot of the k-th active entry (k from 1) in slot order
SlotOfRank(act, k) == CHOOSE s \in act : Cardinality({r \in act : r < s}) = k - 1

\* C1: after the init, once POOL_SIZE + 1 requested positions have been placed
\* (in any number of spawn messages) and no tick has deactivated a body, exactly
\* POOL_SIZE bodies are active and the last request used slot 0.
C1_PoolRecycling ==
  (worldsCreated = 1 /\ placed = POOL_SIZE + 1 /\ ~deactivated)
    => (ActiveCount = POOL_SIZE /\ lastSlots[Len(lastSlots)] = 0)

\* C1 witness: the 13th request arrived alone in its message, after a tick, and
\* took slot 0 from an active body.
C1_Witness ==
  /\ worldsCreated = 1 /\ placed = POOL_SIZE + 1 /\ ~deactivated
  /\ ticks > 0 /\ preempted
  /\ lastSlots = <<0>> /\ ActiveCount = POOL_SIZE

\* C2: the k-th placed request (k from 0, across all spawn messages) uses slot
\* k mod POOL_SIZE, and neither a slot index nor poolNext exceeds POOL_SIZE - 1.
C2_RoundRobin ==
  /\ poolNext \in 0 .. (POOL_SIZE - 1)
  /\ poolNext = placed % POOL_SIZE
  /\ \A i \in 1 .. Len(lastSlots) :
       /\ lastSlots[i] \in 0 .. (POOL_SIZE - 1)
       /\ lastSlots[i] = (placed - Len(lastSlots) + i - 1) % POOL_SIZE

\* C2 witness: 15 requests placed, the last three in slots 0, 1, 2, which were
\* active when they were taken.
C2_Witness ==
  /\ placed = POOL_SIZE + 3 /\ lastSlots = <<0, 1, 2>> /\ preempted
  /\ ActiveCount = POOL_SIZE

\* C3: once a world exists, no step replaces it or changes which bodies the
\* pool holds.
C3_AllocatedOnce ==
  [][world # 0 => (world' = world /\ BodyIds(pool') = BodyIds(pool))]_vars

\* C4: a tick posts exactly when some entry is active at its start, and then one
\* update holding the position of every such entry, in slot order.
C4_UpdateIffActive ==
  [][(ticks' = ticks + 1) =>
       LET act == ActiveSlots(pool)
       IN /\ (posted' # << >>) <=> (act # {})
          /\ Len(posted') <= 1
          /\ \A m \in 1 .. Len(posted') :
               /\ posted'[m].type = "update"
               /\ Len(posted'[m].positions) = Cardinality(act)
               /\ Len(posted'[m].positions) > 0
               /\ \A k \in 1 .. Len(posted'[m].positions) :
                    posted'[m].positions[k] = pool'[SlotOfRank(act, k) + 1].y]_vars

\* C4 witness: a tick has posted an update whose positions differ from slot to
\* slot, one of them of a body the tick deactivated.
C4_Witness ==
  /\ ticks > 0 /\ Len(posted) = 1 /\ posted[1].type = "update"
  /\ Len(posted[1].positions) > ActiveCount
  /\ \E i, j \in 1 .. Len(posted[1].positions) :
       posted[1].positions[i] # posted[1].positions[j]

\* C21: a tick leaves no active entry below the floor threshold of -20; an
\* update holds a position for each entry active when the tick began and for
\* no other; an inactive entry becomes active only in a spawn that took its
\* slot.
C21_FloorDeactivation ==
  [][/\ (ticks' = ticks + 1) =>
          /\ \A i \in 1 .. Len(pool') : pool'[i].active => pool'[i].y >= -20
          /\ \A m \in 1 .. Len(posted') :
               Len(posted'[m].positions) = Cardinality(ActiveSlots(pool))
     /\ \A i \in 1 .. Len(pool) :
          (i <= Len(pool') /\ pool'[i].body = pool[i].body
             /\ ~pool[i].active /\ pool'[i].active) =>
            (placed' > placed /\ \E k \in 1 .. Len(lastSlots') : lastSlots'[k] = i - 1)]_vars

\* C21 witness: a tick has deactivated the body of slot 0, and a later spawn,
\* coming round the pool, has taken the slot while it was inactive
C21_Witness ==
  /\ worldsCreated = 1 /\ deactivated /\ ~preempted
  /\ placed = POOL_SIZE + 1 /\ pool[1].active /\ pool[1].y > FLOOR_Y

\* C27: while no world exists no entry is active, poolNext is 0, nothing has
\* been placed and no update is posted; a spawn that found no world posts
\* nothing.
C27_SpawnBeforeWorld ==
  /\ worldsCreated = 0 =>
       /\ world = 0
       /\ ActiveSlots(pool) = {}
       /\ poolNext = 0
       /\ placed = 0 /\ lastSlots = << >>
       /\ \A m \in 1 .. Len(posted) : posted[m].type # "update"
  /\ ignored => (world = 0 /\ posted = << >>)

\* C27 witness: a spawn was handled, and dropped, while an init was awaiting
\* the engine
C27_Witness == ignored /\ initsAwaiting > 0 /\ worldsCreated = 0

\* C28: at most one timer runs, it runs once stepping is set, and stepping is
\* set from the first init on.
C28_OneLoop ==
  /\ intervals <= 1
  /\ stepping <=> intervals = 1
  /\ worldsCreated > 0 => stepping

\* C28 witness: two inits have created their worlds and one timer runs
C28_Witness == worldsCreated = 2 /\ initsAwaiting = 0 /\ intervals = 1 /\ ticks > 0


(***************************************************************************)
(* Properties of the world generator.                                      *)
(***************************************************************************)
\* two calls of generatePlanet have been made, with the same seed
SameSeedTwice == genCalls >= 2 /\ seed = prevSeed

\* C5: two calls with the same seed return the same world: the same position
\* list, colour list and heights.
C5_SameSeedSameWorld == SameSeedTwice => terrain = prevTerrain

\* C6: two successive calls with the same seed return height arrays of length
\* WORLD_SIZE * WORLD_SIZE that are equal element by element.
C6_HeightsDeterministic ==
  SameSeedTwice =>
    /\ DOMAIN terrain.heights = 0 .. (WORLD_SIZE * WORLD_SIZE - 1)
    /\ DOMAIN prevTerrain.heights = 0 .. (WORLD_SIZE * WORLD_SIZE - 1)
    /\ \A idx \in 0 .. (WORLD_SIZE * WORLD_SIZE - 1) :
         terrain.heights[idx] = prevTerrain.heights[idx]

\* C6 witness: seed 42 generated twice, the quarry carving having lowered some
\* cells to 0 and left others at their base height
C6_Witness ==
  /\ SameSeedTwice /\ seed = 42
  /\ terrain.positions # prevTerrain.positions
  /\ \E idx \in DOMAIN terrain.heights : terrain.heights[idx] = 0
  /\ \E idx \in DOMAIN terrain.heights : terrain.heights[idx] = 3

(***************************************************************************)
(* Properties of the height queries.                                       *)
(***************************************************************************)
\* the quarries whose footprint holds the cell of array index idx
QuarriesOver(sd, idx) ==
  LET qs == QuarryTable[sd].quarries
  IN {q \in 1 .. Len(qs) :
        InFootprint(qs[q], (idx \div WORLD_SIZE) - HalfWorld, (idx % WORLD_SIZE) - HalfWorld)}

\* C7: every stored height is >= 0, every query returns a number >= 0, and a
\* spherical query returns a radius >= PLANET_RADIUS.
C7_HeightsNonNegative ==
  /\ \A idx \in DOMAIN heights : heights[idx] >= 0
  /\ query.mode # "none" => (~query.nan /\ query.value >= 0)
  /\ query.mode = "spherical" => query.value >= PLANET_RADIUS * query.den

\* C7 witness: a planar query on a cell that two quarries carved, lowered to 0,
\* returned 0.
C7_Witness ==
  /\ query.mode = "planar" /\ ~query.nan /\ query.value = 0
  /\ heights[query.cells[1]] = 0
  /\ Cardinality(QuarriesOver(fieldSeed, query.cells[1])) >= 2

\* C8: no query returns NaN or reads an index outside the heights array; the
\* planar query reads the one cell nearest to the position clamped into the
\* field, the spherical query four cells.
C8_QueryInRange ==
  query.mode # "none" =>
    /\ ~query.nan
    /\ \A k \in 1 .. Len(query.cells) : query.cells[k] \in DOMAIN heights
    /\ query.mode = "planar" =>
         /\ Len(query.cells) = 1
         /\ query.cells[1] =
              CellIndex(Max(-HalfWorld, Min(HalfWorld - 1, Round(query.input[1]))),
                        Max(-HalfWorld, Min(HalfWorld - 1, Round(query.input[2]))))
    /\ query.mode = "spherical" => Len(query.cells) = 4

\* C8 witness: a spherical query at the south pole, its azimuth in the last
\* longitude cell: latitude is clamped (lat1 = lat0 = LAT_STEPS - 1) and
\* longitude wraps (lon0 = LON_STEPS - 1, lon1 = 0).
C8_Witness ==
  /\ query.mode = "spherical"
  /\ query.cells = <<LAT_STEPS * LON_STEPS - 1, LAT_STEPS * LON_STEPS - 1,
                     (LAT_STEPS - 1) * LON_STEPS, (LAT_STEPS - 1) * LON_STEPS>>

\* C9: a spherical query whose interpolation weights are both 0 returns
\* PLANET_RADIUS + stored height * VOXEL_SIZE of its first cell, which is 6.15
\* when the stored height is 3.
C9_ExactAtGridCell ==
  (query.mode = "spherical" /\ query.weights = <<0, 0>>) =>
    /\ query.value = (PLANET_RADIUS + heights[query.cells[1]] * VOXEL_SIZE_SPHERE) * query.den
    /\ heights[query.cells[1]] = 3 => query.value = 61500 * query.den

\* C9 witness: the query along normal (0, 1, 0), phi = 0 and theta = 0, on a
\* field whose cell (0, 0) stores 3 and whose next cell in longitude stores less
C9_Witness ==
  /\ query.mode = "spherical" /\ query.input = <<0, 0>>
  /\ query.weights = <<0, 0>> /\ query.cells = <<0, LON_STEPS, 1, LON_STEPS + 1>>
  /\ heights[0] = 3 /\ heights[1] < 3
  /\ query.value = 61500 * query.den

(***************************************************************************)
(* Properties of the radial spring.                                        *)
(***************************************************************************)
\* C10: for every frame time up to MaxStepFrames / 60 s the radius is within
\* Epsilon of the target from frame SettleFrames on, and the distance to the
\* target never exceeds the distance at the start.
C10_SpringSettles ==
  /\ frames >= SettleFrames => Abs(targetSurface - radial) <= Epsilon
  /\ Abs(targetSurface - radial) <= startError

\* C10 witness: with the longest frame time, from radial 0, the radius has
\* overshot the target and has settled within Epsilon of it.
C10_Witness ==
  /\ delta = MaxStepFrames /\ startError = targetSurface /\ startError > 0
  /\ frames >= SettleFrames /\ crossed
  /\ Abs(targetSurface - radial) <= Epsilon

(***************************************************************************)
(* The messages of the worker.                                             *)
(***************************************************************************)
\* message number i posted by the step is of type t
PostsType(i, t) == posted'[i].type = t

\* the step ends an init(): a world and a full pool are in place
InitFinishes ==
  /\ initsAwaiting' = initsAwaiting - 1
  /\ world' # 0
  /\ Len(pool') = POOL_SIZE

\* C14: a step that handles a spawn message posts nothing; 'inited' is posted
\* by the step in which an init() finishes, once, and by no other step; an
\* 'update' is posted by a timer tick only.
C14_Replies ==
  [][/\ RecvSpawn => posted' = << >>
     /\ \A i \in 1 .. Len(posted') :
          /\ PostsType(i, "update") => TimerTick
          /\ PostsType(i, "inited") => InitFinishes /\ Len(posted') = 1
     /\ initsAwaiting' < initsAwaiting => Len(posted') = 1 /\ PostsType(1, "inited")
     /\ RecvInit => initsAwaiting' = initsAwaiting + 1]_vars

\* two inits have been answered, positions have been spawned and the ticks
\* have run; the latest handler, a spawn, has posted nothing
C14_Witness ==
  /\ initsReceived = 2
  /\ initsAwaiting = 0
  /\ placed > 0
  /\ ActiveCount > 0
  /\ ticks = MaxTicks
  /\ posted = << >>

(***************************************************************************)
(* Properties of the planar player.                                        *)
(***************************************************************************)
\* the square of the horizontal distance from point p to the centre of voxel v
Dist2(p, v) ==
  (p.x - v[1] * VOXEL_SIZE) * (p.x - v[1] * VOXEL_SIZE)
    + (p.z - v[3] * VOXEL_SIZE) * (p.z - v[3] * VOXEL_SIZE)

\* the foot-to-head span of the resolution pass meets the extent of voxel v
Meets(at, v) ==
  /\ at.feet <= v[2] * VOXEL_SIZE + HalfVoxel
  /\ at.head >= v[2] * VOXEL_SIZE - HalfVoxel

\* C11: with a single solid voxel at the player's level, a player that was
\* farther than r + h from the voxel centre when the tick began is, after the
\* resolution pass of the tick, at least r + h from it (to the rounding of
\* two units of 0.0001).
C11_Containment ==
  \A v \in rockVoxels :
    (/\ rockVoxels = {v}
     /\ walkTicks > 0
     /\ Meets(entry, v)
     /\ Dist2(before, v) > MinDist * MinDist)
      => Dist2(position, v) >= (MinDist - 2) * (MinDist - 2)

\* C19: at the end of every tick the published height is the height of the
\* surface under the published horizontal position plus the eye height: the
\* vertical snap comes after the collision resolution.
C19_SnapAfterCollision ==
  walkTicks > 0 =>
    position.y = SurfaceUnder(position.x, position.z, ground) + PLAYER_HEIGHT

\* C20: a voxel pushes the player only when the player's span from feet to
\* head meets the vertical extent of the voxel.
C20_PushNeedsOverlap ==
  \A k \in 1 .. Len(hits) : Meets(entry, hits[k].voxel)

(***************************************************************************)
(* Properties of the terrain edits.                                        *)
(***************************************************************************)
\* the rock voxels of the render list
RockOfList == {j \in 1 .. Len(terrain.positions) : terrain.colors[j] = "rock"}

\* fragment f lies at the centre of a grid cell of the set rocks
AtIndexedCell(f, rocks) ==
  /\ f[1] % VOXEL_SIZE = 0
  /\ f[2] % VOXEL_SIZE = 0
  /\ f[3] % VOXEL_SIZE = 0
  /\ <<f[1] \div VOXEL_SIZE, f[2] \div VOXEL_SIZE, f[3] \div VOXEL_SIZE>> \in rocks

\* C12: after generation and after every edit the set of keys Player collides
\* with is exactly the set of grid coordinates of the rock voxels of the
\* current render list, and no sub-voxel fragment is a member of it.
C12_IndexIsRockOfList ==
  /\ rockVoxels = {terrain.positions[j] : j \in RockOfList}
  /\ ground = terrain.heights
  /\ \A k \in 1 .. Len(subVoxels) : ~AtIndexedCell(subVoxels[k], rockVoxels)

\* a voxel has been subdivided, after another edit, and has left the set
C12_Witness ==
  /\ edits = 2
  /\ lastEdit.kind = "click"
  /\ lastEdit.fragments > 0
  /\ Len(subVoxels) >= lastEdit.fragments
  /\ lastEdit.voxel \notin rockVoxels

\* list now is list was without its entry number index (counted from 0)
LacksEntry(now, was, index) ==
  /\ Len(now) = Len(was) - 1
  /\ SubSeq(now, 1, index) = SubSeq(was, 1, index)
  /\ SubSeq(now, index + 1, Len(now)) = SubSeq(was, index + 2, Len(was))

\* C13: the position list and the colour list have the same length; an edit
\* removes the same entry from both, leaving every other entry paired as it
\* was, in new lists: the lists a reader held before the edit are unchanged.
C13_ListsPaired ==
  /\ Len(terrain.positions) = Len(terrain.colors)
  /\ lastEdit.kind \in {"click", "remove"} =>
       /\ LacksEntry(terrain.positions, readerSaw.positions, lastEdit.index)
       /\ LacksEntry(terrain.colors, readerSaw.colors, lastEdit.index)
       /\ readerHolds = readerSaw

\* an edit has removed a voxel from lists that an earlier edit built
C13_Witness ==
  /\ edits = 2
  /\ lastEdit.kind = "remove"
  /\ Len(readerSaw.positions) = Len(readerSaw.colors)
  /\ Len(terrain.positions) = Len(readerSaw.positions) - 1
  /\ readerHolds = readerSaw

(***************************************************************************)
(* Properties of the loader.                                               *)
(***************************************************************************)
\* C15: for every interleaving of loadWasm calls the module is instantiated
\* at most once and all the calls that have resolved have resolved to the
\* same exports object.
C15_LoadedOnce ==
  /\ loads <= 1
  /\ \A i, j \in Settled(calls) : calls[i].result = calls[j].result

\* C16: no call of loadWasm rejects; a call whose fetch or instantiation
\* failed has resolved to a fallback object, and every call that began after
\* it had resolved has resolved to a fallback object too.
C16_FallbackKept ==
  \A i \in Settled(calls) :
    /\ calls[i].pc = "resolved"
    /\ calls[i].result \in 1 .. Len(kinds)
    /\ kinds[calls[i].result] = "fallback" =>
         \A j \in Settled(calls) : i \in calls[j].began => kinds[calls[j].result] = "fallback"


(***************************************************************************)
(* Properties of the spherical player.                                     *)
(***************************************************************************)
\* C17: after a frame with a movement intent whose sampled rise is within the
\* step-max band, the published position lies along the candidate direction
C17_CommitPublished ==
  (globeLast.lat.intent /\ globeLast.lat.accepted) =>
    globePosition.dir = globeLast.lat.candidate

\* the rise of the ring maxima of a frame, a rise of DECAL_IGNORE or less
\* (every descent included) counting as none
CountedRise(lat) ==
  IF lat.candidateMax - lat.currentMax <= DECAL_IGNORE THEN 0
  ELSE lat.candidateMax - lat.currentMax

\* C18: in a frame with a movement intent the lateral move is accepted exactly
\* when the counted rise is at most STEP_MAX; a rejected move leaves forward as
\* it was, an accepted one turns it to the move; the spring advances radial
\* and radialVelocity in the frame either way
C18_StepRule ==
  globeLast.lat.intent =>
    /\ globeLast.lat.accepted <=> CountedRise(globeLast.lat) <= STEP_MAX
    /\ globeForward = (IF globeLast.lat.accepted THEN globeLast.lat.moveWorld
                       ELSE globeLast.forward)
    /\ globeVelocity = NextVelocity(globeLast.targetSurface, globeLast.radial,
                                    globeLast.radialVelocity, globeLast.lat.n)
    /\ globeRadial = NextRadial(globeLast.targetSurface, globeLast.radial,
                                globeLast.radialVelocity, globeLast.lat.n)

\* a frame with a movement intent met a rise above the decal band and took it
C18_Witness ==
  /\ globeLast.lat.intent
  /\ globeLast.lat.candidateMax - globeLast.lat.currentMax > DECAL_IGNORE
  /\ globeLast.lat.accepted
  /\ globeForward # globeLast.forward

(***************************************************************************)
(* Properties of the orbit camera.                                         *)
(***************************************************************************)
\* C22: in every state the zoom distance of the orbit camera lies in
\* [PLANET_RADIUS * 1.2, PLANET_RADIUS * 6] and its polar angle in [0.35, 1.35]
C22_OrbitInRange ==
  rig # "none" =>
    /\ orbit.distance >= 57600 /\ orbit.distance <= 288000
    /\ orbit.polar >= 3500 /\ orbit.polar <= 13500

\* C29: azimuth and polar change only in a pointer move received in orbit mode
\* after a primary-button pointer-down received in orbit mode, with no
\* pointer-up received since
C29_TurnsOnlyInDrag ==
  [][(rig # "none" /\ (orbit'.azimuth # orbit.azimuth \/ orbit'.polar # orbit.polar)) =>
       (held /\ camMode = "iso" /\ camMode' = "iso" /\ held' = held
          /\ orbit'.dragging /\ orbit'.distance = orbit.distance)]_vars

\* C29 witness: the camera has turned in a drag that went on over a switch to
\* the first-person mode and back
C29_Witness ==
  /\ camMode = "iso" /\ held /\ awayInDrag
  /\ orbit.azimuth # 7854 /\ orbit.polar # 10472


\* C23: the pitch of the planar player is in [-0.4, 0.8] rad after every frame,
\* whatever the rotation intents and the frame time; a frame changes it by
\* rotSpeed * delta up, down or both, and a turn that would pass a limit
\* leaves it at the limit.
C23_PitchClamped ==
  /\ pitch >= -4000 /\ pitch <= 8000
  /\ [][walkTicks' = walkTicks + 1 =>
         /\ pitch' >= -4000 /\ pitch' <= 8000
         /\ \E n \in DeltaFrames :
              \/ pitch' = pitch
              \/ pitch' = (IF pitch + 300 * n > 8000 THEN 8000 ELSE pitch + 300 * n)
              \/ pitch' = (IF pitch - 300 * n < -4000 THEN -4000 ELSE pitch - 300 * n)
              \/ pitch' = (IF pitch + 300 * n > 8000 THEN 8000 ELSE pitch + 300 * n) - 300 * n]_vars

\* C23 witness: a frame that turned up from 0.78 rad has left the pitch at
\* the limit 0.8 rad.
C23_Witness ==
  /\ walkTicks = 1 /\ pitch = 8000


\* how many rock voxels the quarries before quarry q have pushed
RECURSIVE RocksBefore(_, _)
RocksBefore(qs, q) ==
  IF q <= 1 THEN 0 ELSE RocksBefore(qs, q - 1) + CellCount(qs[q - 1]) * qs[q - 1].h

\* the level of the lowest voxel of the column quarry q has pushed on the cell
\* of array index idx, read in the returned list
ColumnFoot(q, idx) ==
  LET qs == QuarryTable[seed].quarries
      gx == (idx \div WORLD_SIZE) - HalfWorld
      gz == (idx % WORLD_SIZE) - HalfWorld
  IN terrain.positions[Len(BaseTable[seed].positions) + RocksBefore(qs, q)
                         + CellRank(qs[q], gx, gz) * qs[q].h + 1][2]

\* quarry q has pushed, on the cell of array index idx, h rock voxels on the
\* levels b .. b + h - 1
ColumnOn(q, idx, b) ==
  LET qs == QuarryTable[seed].quarries
      gx == (idx \div WORLD_SIZE) - HalfWorld
      gz == (idx % WORLD_SIZE) - HalfWorld
      first == Len(BaseTable[seed].positions) + RocksBefore(qs, q)
                 + CellRank(qs[q], gx, gz) * qs[q].h
  IN \A by \in 0 .. (qs[q].h - 1) :
       /\ terrain.positions[first + 1 + by] = <<gx, b + by, gz>>
       /\ terrain.colors[first + 1 + by] = "rock"

\* C24: the generator carves 3, 4 or 5 quarries.  Every cell of the footprint
\* of a quarry of height h carries a column of h rock voxels on consecutive
\* levels from the height the carve of that quarry has stored: at most the
\* height before the quarries less floor(h / 2) (or 0), at least the height
\* returned, and the height returned where no later quarry covers the cell.
C24_CarveThenStack ==
  genCalls > 0 =>
    /\ Len(QuarryTable[seed].quarries) \in {3, 4, 5}
    /\ \A idx \in DOMAIN terrain.heights : \A q \in QuarriesOver(seed, idx) :
         \E b \in {ColumnFoot(q, idx)} :
           /\ ColumnOn(q, idx, b)
           /\ b >= terrain.heights[idx]
           /\ b <= BaseTable[seed].heights[idx] - (QuarryTable[seed].quarries[q].h \div 2) \/ b = 0
           /\ (\A o \in QuarriesOver(seed, idx) : o <= q) => b = terrain.heights[idx]

\* C24 witness: a world of 5 quarries with a cell one quarry alone covers, whose carve
\* lowered it to a height above 0 where its column starts, and with a cell two
\* quarries cover, where the column of the earlier one starts above the height
\* returned.
C24_Witness ==
  /\ genCalls > 0
  /\ Len(QuarryTable[seed].quarries) = 5
  /\ \E idx \in DOMAIN terrain.heights : \E q \in QuarriesOver(seed, idx) :
       /\ QuarriesOver(seed, idx) = {q}
       /\ terrain.heights[idx] > 0
       /\ terrain.heights[idx] < BaseTable[seed].heights[idx]
       /\ ColumnOn(q, idx, terrain.heights[idx])
  /\ \E idx \in DOMAIN terrain.heights : \E q \in QuarriesOver(seed, idx) :
       /\ \E o \in QuarriesOver(seed, idx) : o > q
       /\ ColumnFoot(q, idx) > terrain.heights[idx]


\* the sum of the pushes of hs[1 .. k]
RECURSIVE PushSum(_, _)
PushSum(hs, k) == IF k = 0 THEN <<0, 0>> ELSE Plus(PushSum(hs, k - 1), hs[k].push)

\* voxel a is visited before voxel b by the loops of lines 335-337: dx
\* outermost, then dz, then dy
VisitedBefore(a, b) ==
  \/ a[1] < b[1]
  \/ a[1] = b[1] /\ a[3] < b[3]
  \/ a[1] = b[1] /\ a[3] = b[3] /\ a[2] < b[2]

\* voxel v is one the loops of lines 335-340 look up from the pass start
InSearch(v) ==
  /\ Abs(v[1] - RoundCell(entry.x)) <= SearchCells
  /\ Abs(v[3] - RoundCell(entry.z)) <= SearchCells
  /\ v[2] - RoundCell(entry.feet) \in -1 .. (LevelCount - 2)

\* C26: the rock voxels that push the player in a frame are resolved one by
\* one in the order of the loops, each push computed from the position the
\* pass started at, and the player ends at that position plus the sum of the
\* pushes: a voxel of the search box that pushes from the start position is
\* counted once, and nothing is computed from a displaced position.
C26_IndependentPushes ==
  walkTicks > 0 =>
    /\ position.x = entry.x + PushSum(hits, Len(hits))[1]
    /\ position.z = entry.z + PushSum(hits, Len(hits))[2]
    /\ position.y = entry.head
    /\ \A k \in 1 .. Len(hits) :
         /\ hits[k].voxel \in rockVoxels
         /\ InSearch(hits[k].voxel)
         /\ hits[k].push = Push(entry, hits[k].voxel)
         /\ hits[k].push # <<0, 0>>
    /\ \A j, k \in 1 .. Len(hits) : j < k => VisitedBefore(hits[j].voxel, hits[k].voxel)
    /\ \A v \in rockVoxels :
         (InSearch(v) /\ Push(entry, v) # <<0, 0>>) => \E k \in 1 .. Len(hits) : hits[k].voxel = v

\* C26 witness: a frame in which voxels of two different columns pushed the
\* player, the later of them one that would not push from where the first push
\* alone leaves the player or would push differently.
C26_Witness ==
  /\ walkTicks > 0
  /\ \E j, k \in 1 .. Len(hits) :
       /\ j < k
       /\ <<hits[j].voxel[1], hits[j].voxel[3]>> # <<hits[k].voxel[1], hits[k].voxel[3]>>
       /\ Push([entry EXCEPT !.x = entry.x + PushSum(hits, j)[1],
                              !.z = entry.z + PushSum(hits, j)[2]], hits[k].voxel)
            # hits[k].push


\* C30: after a click has removed the rock voxel at a grid coordinate, that
\* coordinate is no longer a key of the set Player collides with.
C30_VacatedCellLeavesIndex ==
  lastEdit.kind = "click" => lastEdit.voxel \notin rockVoxels


\* C25: a frame of the spherical player leaves a usable tangent basis, also
\* when the normal is parallel to up: the forward vector it publishes, north
\* at the spawn and the move of the latest accepted frame after it, is not
\* the zero vector, and a frame with a movement intent has a move that is not
\* the zero vector.
C25_UsableTangentBasis ==
  globeTicks > 0 =>
    /\ globeForward.east # 0 \/ globeForward.north # 0
    /\ globeLast.lat.intent =>
         (globeLast.lat.moveWorld.east # 0 \/ globeLast.lat.moveWorld.north # 0)

=============================================================================
